---- MODULE Spec2Model ----
\* Verification model of the mindbnb quantized-matmul orchestrator
\* (bitsandbytes/autograd/_functions.py, bitsandbytes/nn/modules.py) and of
\* the quantization-state helpers of bitsandbytes/functional.py.
\*
\* Tensors are abstracted to what the control flow depends on: whether a
\* cache slot holds a tensor ("T") or None, which columns an index tensor
\* names, and which cells of the activation exceed the outlier threshold.
\* Python attribute lookup is modelled as it works: MatmulLtState is a
\* dataclass whose only annotated fields are _tile_indices and
\* force_no_igemmlt; every other name is a class attribute, so an instance
\* that has not assigned a name reads the value stored on the class.
\* Calls into the tensor library are taken to do what their name says
\* (ops.unique yields the distinct column indices).
EXTENDS Integers, Sequences, FiniteSets, TLC

\* ---------------------------------------------------------------- bounds
NCols == 2
MaxTransforms == 3
MaxBlocks == 2
MaxDim == 3
MaxTiles == 2
MaxNnz == 3

\* ------------------------------------------------------------- constants
States == {1, 2}
Cols == 1..NCols
Thresholds == {0, 6}
BiasKinds == {"None", "fp16", "fp32"}

\* F.get_device_capability() / F.get_device_name() results of the machines
\* the call can run on; a name is the list of its words.
Devices ==
  { [cap |-> <<7, 0>>, name |-> <<"Tesla", "V100">>],
    [cap |-> <<7, 5>>, name |-> <<"GTX", "1650", "Ti">>],
    [cap |-> <<7, 5>>, name |-> <<"Tesla", "T4">>],
    [cap |-> <<8, 0>>, name |-> <<"A100">>] }

nvidia16_models == { <<"GTX", "1630">>, <<"GTX", "1650">>, <<"GTX", "1660">> }

VARIABLES
  inst,      \* inst[s]: the MatmulLtState instance s (own attributes, values)
  cls,       \* attributes stored on the class MatmulLtState itself
  weight,    \* weight[s]: CB / SCB kept on the Int8Params of layer s
  dev,       \* the device the process currently runs on
  pool,      \* GlobalOutlierPooler._instance exists
  last,      \* what the most recent call did
  hist,      \* hist[s]: weight-layout transforms of state s since its weight last changed
  qin,       \* arguments of the library function under study; per-thread positions in the threaded model
  qout       \* what that function returned or raised; the process-wide singletons in the threaded model

vars == <<inst, cls, weight, dev, pool, last, hist, qin, qout>>

\* -------------------------------------------------- device capability
\* Python tuple comparison a < b on pairs
TupleLt(a, b) == a[1] < b[1] \/ (a[1] = b[1] /\ a[2] < b[2])

\* model_name in device_name (contiguous occurrence)
Contains(name, model) ==
  \E i \in 1..Len(name) :
     /\ i + Len(model) - 1 <= Len(name)
     /\ \A j \in 1..Len(model) : name[i + j - 1] = model[j]

\* the capability test alone
supports_igemmlt_no16(d) == ~ TupleLt(d.cap, <<7, 5>>)

supports_igemmlt(d) ==
  IF TupleLt(d.cap, <<7, 5>>) THEN FALSE
  ELSE IF \E m \in nvidia16_models : Contains(d.name, m) THEN FALSE
  ELSE TRUE

get_special_format_str(d) ==
  IF d.cap[1] <= 7 THEN "col_turing"
  ELSE IF d.cap[1] = 8 THEN "col_ampere"
  ELSE "col_turing"

\* ------------------------------------------------ MatmulLtState objects
\* names assigned in the class body (SCBt is not one of them)
ClassAttrs(d) ==
  [ force_no_igemmlt |-> FALSE,
    CB |-> "None", CxB |-> "None", SB |-> "None", SCB |-> "None",
    CxBt |-> "None", SBt |-> "None", CBt |-> "None", SCBt |-> "absent",
    subB |-> "None", subBCols |-> {},
    outlier_pool |-> "None",
    threshold |-> 0,
    idx |-> "None", idxCols |-> {},
    is_training |-> TRUE,
    has_fp16_weights |-> TRUE,
    use_pool |-> FALSE,
    formatB |-> get_special_format_str(d) ]

\* value an instance slot holds while the instance does not own the name
Blank(d) == [ClassAttrs(d) EXCEPT !.SCBt = "None"]

\* MatmulLtState(): the dataclass __init__ assigns the annotated fields only
NewState(d) == [own |-> {"force_no_igemmlt"}, val |-> Blank(d)]

\* setattr on an instance
SetAttr(st, f, v) == [own |-> st.own \cup {f}, val |-> [st.val EXCEPT ![f] = v]]

\* del instance.f
DelAttr(st, f) == [own |-> st.own \ {f}, val |-> [st.val EXCEPT ![f] = "None"]]

\* getattr through an instance: own attribute first, then the class
GetAttr(st, c, f) == IF f \in st.own THEN st.val[f] ELSE c[f]

\* ------------------------------------------------------ call frames
\* A frame carries the state object the call works on (an instance, or the
\* class when the state argument is left at its default), the local
\* variables of construct and the record of what the call did.
Frame(st, c, onClass) ==
  [ st |-> st, c |-> c, onClass |-> onClass,
    err |-> FALSE, made |-> FALSE,
    status |-> 0, exc |-> <<>>,
    coo |-> FALSE, ocols |-> {},
    subA |-> "unbound", subACols |-> {},
    caZero |-> {},
    log |-> <<>>, path |-> "none", zeroed |-> {}, added |-> {} ]

FGet(fr, f) == IF fr.onClass THEN fr.c[f] ELSE GetAttr(fr.st, fr.c, f)

FSet(fr, f, v) ==
  IF fr.onClass THEN [fr EXCEPT !.c = [@ EXCEPT ![f] = v]]
  ELSE [fr EXCEPT !.st = SetAttr(@, f, v)]

Do(fr, step) == [fr EXCEPT !.log = Append(@, step)]
Raise(fr) == [fr EXCEPT !.err = TRUE]

\* ------------------------------------------------------- quantize A
\* the activation A, reduced to what the call reads of it: whether it has
\* no elements, and which of its columns hold an element that the kernel
\* reports as an outlier once a positive threshold is set
Activations ==
  {[empty |-> TRUE, out |-> {}]} \cup {[empty |-> FALSE, out |-> S] : S \in SUBSET Cols}

\* prod(A.shape) == 0
IsEmpty(A) == A.empty

\* coo_tensorA.colidx as double_quant returns it: no entry unless the
\* threshold is positive, else the column of every outlier
RECURSIVE ColumnsFrom(_, _)
ColumnsFrom(c, out) ==
  IF c > NCols THEN <<>>
  ELSE IF c \in out THEN <<c>> \o ColumnsFrom(c + 1, out)
  ELSE ColumnsFrom(c + 1, out)

coo_colidx(A, t) == IF t > 0 THEN ColumnsFrom(1, A.out) ELSE <<>>

\* ops.unique
unique(seq) == {seq[i] : i \in 1..Len(seq)}

\* MatmulLtState.reset_grads
reset_grads(st) ==
  [ own |-> st.own \cup {"CB", "CxB", "SB", "SCB", "CxBt", "SBt", "CBt"},
    val |-> [st.val EXCEPT !.CB = "None", !.CxB = "None", !.SB = "None",
                           !.SCB = "None", !.CxBt = "None", !.SBt = "None",
                           !.CBt = "None"] ]

\* state.outlier_pool = GlobalOutlierPooler.get_instance()
GetPool(fr) ==
  IF FGet(fr, "outlier_pool") = "None"
  THEN [FSet(fr, "outlier_pool", "pool") EXCEPT !.made = TRUE]
  ELSE fr

\* state.CxB, state.SB = F.transform(state.CB, to_order=formatB)
TransformCB(fr) ==
  IF FGet(fr, "CB") = "None" THEN Raise(fr)
  ELSE Do(FSet(FSet(fr, "CxB", "T"), "SB", "T"), "transformB")

SetIdx(fr, idx) == FSet(FSet(fr, "idx", "T"), "idxCols", idx)
SetSubB(fr, idx) == FSet(FSet(fr, "subB", "T"), "subBCols", idx)

\* CA[:, idx] = 0; CAt[:, idx] = 0; subA = A[:, idx]
ZeroCA(fr, idx) ==
  [Do(fr, "zeroA") EXCEPT !.caZero = idx, !.subA = "T", !.subACols = idx]

\* the branches that follow double_quant(A) in step 1; fr has the COO
\* tensor of A in fr.coo / fr.ocols
AfterQuantA(fr, using) ==
  IF FGet(fr, "threshold") > 0 /\ fr.coo
  THEN IF FGet(fr, "has_fp16_weights")
       THEN SetIdx(SetSubB(ZeroCA(fr, fr.ocols), fr.ocols), fr.ocols)
       ELSE IF FGet(fr, "CxB") = "None" /\ using THEN TransformCB(fr) ELSE fr
  ELSE IF ~ FGet(fr, "has_fp16_weights") /\ FGet(fr, "CxB") = "None" /\ using
       THEN [TransformCB(fr) EXCEPT !.subA = "None"]
       ELSE [fr EXCEPT !.subA = "None"]

\* 1. Quantize A
QuantizeA(fr, A, using) ==
  AfterQuantA([Do(fr, "quantA") EXCEPT
                 !.coo = Len(coo_colidx(A, FGet(fr, "threshold"))) > 0,
                 !.ocols = unique(coo_colidx(A, FGet(fr, "threshold")))],
              using)

\* the test that decides whether B is quantized again
MustQuantizeB(fr, hasGrad) ==
  \/ FGet(fr, "is_training") /\ ~ hasGrad
  \/ FGet(fr, "CxB") = "None"

\* reset_grads(), double_quant(B) and the store of its results
RequantizeB(fr, using) ==
  IF using
  THEN [fr EXCEPT !.st = [ own |-> reset_grads(@).own \cup {"CBt", "SCB", "SCBt"},
                           val |-> [reset_grads(@).val EXCEPT
                                      !.CBt = "T", !.SCB = "T", !.SCBt = "T",
                                      !.CxB = "T", !.SB = "T"] ],
                  !.log = @ \o <<"quantB", "transformB">>]
  ELSE [fr EXCEPT !.st = [ own |-> reset_grads(@).own \cup {"CBt", "SCB", "SCBt"},
                           val |-> [reset_grads(@).val EXCEPT
                                      !.CBt = "T", !.SCB = "T", !.SCBt = "T",
                                      !.CB = "T"] ],
                  !.log = Append(@, "quantB")]

\* 2. Quantize B; on the class object reset_grads() has no self to bind
QuantizeB(fr, hasGrad, using) ==
  IF fr.err \/ ~ FGet(fr, "has_fp16_weights") THEN fr
  ELSE IF ~ MustQuantizeB(fr, hasGrad) THEN fr
  ELSE IF fr.onClass THEN Raise(fr)
  ELSE RequantizeB(fr, using)

\* where the outlier columns of the frozen weight are read from
OutlierSource(fr) ==
  IF FGet(fr, "CxB") # "None" THEN FGet(fr, "SB") ELSE FGet(fr, "CB")

\* extract outliers (frozen weights)
ExtractOutliers(fr) ==
  IF fr.err \/ ~ fr.coo \/ FGet(fr, "has_fp16_weights") THEN fr
  ELSE IF OutlierSource(fr) = "None" \/ FGet(fr, "SCB") = "None"
       THEN Raise(SetIdx(fr, fr.ocols))
       ELSE ZeroCA(SetSubB(SetIdx(fr, fr.ocols), fr.ocols), fr.ocols)

\* mm_dequant with the fused bias, or the scaling by SCB and the bias add
Dequant(fr, bv, fused) ==
  IF FGet(fr, "SCB") = "None" THEN Raise(fr)
  ELSE IF bv = "None" THEN Do(fr, "dequant")
  ELSE IF fused THEN Do(fr, "dequant_bias")
  ELSE [fr EXCEPT !.log = @ \o <<"dequant", "bias">>]

\* columns of the dense operand A_wo_outliers that are cleared
DenseZeroed(fr) == IF FGet(fr, "idx") # "None" THEN FGet(fr, "idxCols") ELSE {}

\* F.igemmlt once the backend kernel has returned has_error: the exception
\* raised, with the arguments it is constructed from, or none
igemmlt(has_error) ==
  IF has_error = 100
  THEN <<"NotImplementedError", "igemmlt not available (probably built with NO_CUBLASLT)">>
  ELSE IF has_error # 0 THEN <<"Exception", "cublasLt ran into an error!">>
  ELSE <<>>

\* 3. Matmul, int8 path; fr.status is what the backend kernel returns
FastMatmul(fr, bv) ==
  IF FGet(fr, "CxB") = "None" \/ FGet(fr, "SB") = "None"
  THEN Raise([Do(fr, "transformA") EXCEPT !.path = "fast", !.zeroed = fr.caZero])
  ELSE IF igemmlt(fr.status) # <<>>
  THEN Raise([fr EXCEPT !.log = @ \o <<"transformA", "igemmlt">>, !.path = "fast",
                        !.zeroed = fr.caZero, !.exc = igemmlt(fr.status)])
  ELSE Dequant([fr EXCEPT !.log = @ \o <<"transformA", "igemmlt">>,
                          !.path = "fast", !.zeroed = fr.caZero],
               bv, bv = "fp16")

\* 3. Matmul, dense fallback
DenseMatmul(fr, bv) ==
  IF FGet(fr, "CB") = "None"
  THEN Raise([Do(fr, "copyA") EXCEPT !.path = "dense", !.zeroed = DenseZeroed(fr)])
  ELSE Dequant([fr EXCEPT !.log = @ \o <<"copyA", "dense">>,
                          !.path = "dense", !.zeroed = DenseZeroed(fr)],
               bv, FALSE)

BaseMatmul(fr, bv, using) ==
  IF fr.err THEN fr
  ELSE IF using THEN FastMatmul(fr, bv) ELSE DenseMatmul(fr, bv)

\* 4. Mixed-precision decomposition matmul
OutlierAdd(fr) ==
  IF fr.err THEN fr
  ELSE IF fr.coo /\ fr.subA # "None"
       THEN [Do(fr, "outlier") EXCEPT !.added = fr.subACols]
       ELSE fr

\* using_igemmlt
UsingIgemmlt(fr, d) == supports_igemmlt(d) /\ ~ FGet(fr, "force_no_igemmlt")

\* the outlier add-back issued ahead of the base matmul
Steps_outlier_first(fr, A, hasGrad, bv, using) ==
  BaseMatmul(OutlierAdd(ExtractOutliers(
     QuantizeB(QuantizeA(GetPool(fr), A, using), hasGrad, using))), bv, using)

Steps(fr, A, hasGrad, bv, using) ==
  OutlierAdd(BaseMatmul(ExtractOutliers(
     QuantizeB(QuantizeA(GetPool(fr), A, using), hasGrad, using)), bv, using))

\* a construct that obtains the outlier pool ahead of the emptiness test
construct_pool_first(fr, A, hasGrad, bv, d) ==
  IF IsEmpty(A) THEN GetPool(fr) ELSE Steps(fr, A, hasGrad, bv, UsingIgemmlt(fr, d))

\* MatMul8bitLt.construct on the state object of frame fr
construct(fr, A, hasGrad, bv, d) ==
  IF IsEmpty(A) THEN fr ELSE Steps(fr, A, hasGrad, bv, UsingIgemmlt(fr, d))

\* ============================================ quantization states
\* A tensor is kept as a tagged value: absmax tensors by their length, a
\* codebook by its name, a scalar by its value. The same tagging keeps
\* the Python type of every entry of a serialized record.
Val(t, v) == [t |-> t, v |-> v]
Tensor(v) == Val("Tensor", v)
None == Val("None", "")

SupportedBlocksizes == {4096, 2048, 1024, 512, 256, 128, 64}
FloatDTypes == {"float32", "float16", "bfloat16"}

\* blocks = n // blocksize; blocks += 1 if n % blocksize > 0 else 0
Blocks(n, blocksize) == (n \div blocksize) + (IF n % blocksize > 0 THEN 1 ELSE 0)

\* QuantState.__init__
QuantState(absmax, shape, code, blocksize, quant_type, dtype, offset, state2) ==
  [ absmax |-> absmax, shape |-> shape, code |-> code, dtype |-> dtype,
    blocksize |-> blocksize, quant_type |-> quant_type, offset |-> offset,
    state2 |-> state2, nested |-> state2 # <<>> ]

\* one call of a backend kernel (bnbop.c...): the blocksize and the absmax
\* tensor handed to it, and the number of bytes of the out buffer
Kernel(fn, blocksize, absmax, out) ==
  [fn |-> fn, blocksize |-> blocksize, absmax |-> absmax, out |-> out]

\* the outcome of a call: the exception raised or the values returned, and
\* the kernel calls made on the way, in order
Raised(e) == [err |-> e, out |-> 0, state |-> <<>>, kernel |-> <<>>]
Returned(out, state) == [err |-> "", out |-> out, state |-> <<state>>, kernel |-> <<>>]
After(calls, res) == [res EXCEPT !.kernel = calls \o @]

\* quantize_blockwise(A, blocksize=blocksize, nested=nested) for a tensor A
\* of n elements; out has the shape of A, absmax one entry per block. The
\* mean taken off absmax is kept as the token "mean".
RECURSIVE quantize_blockwise(_, _, _, _, _)
quantize_blockwise(n, dtype, device, blocksize, nested) ==
  IF device # "cpu" /\ blocksize \notin SupportedBlocksizes THEN Raised("AssertionError")
  ELSE IF device # "cpu" /\ dtype \notin FloatDTypes THEN Raised("ValueError")
  ELSE LET call == Kernel("cquantize_blockwise", blocksize,
                           Tensor(Blocks(n, blocksize)), n)
       IN IF nested
          THEN LET inner == quantize_blockwise(Blocks(n, blocksize), "float32", device,
                                               blocksize, FALSE)
               IN IF inner.err # "" THEN After(<<call>>, inner)
                  ELSE After(<<call>> \o inner.kernel,
                             Returned(n, QuantState(Tensor(inner.out), None,
                                                    Tensor("dynamic"), blocksize, None,
                                                    dtype, Tensor("mean"), inner.state)))
          ELSE After(<<call>>,
                     Returned(n, QuantState(Tensor(Blocks(n, blocksize)), None,
                                            Tensor("dynamic"), blocksize, None, dtype,
                                            None, <<>>)))

\* get_4bit_type(typename, blocksize): `device` is not a parameter and is
\* assigned under the first test, which makes it a local name; the test
\* `device is None` reads it unbound, so every call raises before a table
\* is chosen.
get_4bit_type(typename, blocksize) == [err |-> "UnboundLocalError", code |-> None]

\* the QuantState quantize_4bit builds for a tensor of n elements from the
\* absmax it allocated and the codebook `code`
State4bit(n, dtype, blocksize, compress_statistics, quant_type, code) ==
  IF compress_statistics
  THEN LET inner == quantize_blockwise(Blocks(n, blocksize), "float32", "cuda", 256, FALSE)
       IN QuantState(Tensor(inner.out), Val("tuple", <<n>>), code, blocksize,
                     Val("str", quant_type), dtype, Tensor("mean"), inner.state)
  ELSE QuantState(Tensor(Blocks(n, blocksize)), Val("tuple", <<n>>), code, blocksize,
                  Val("str", quant_type), dtype, None, <<>>)

\* bytes per element of a storage dtype
dtype2bytes ==
  [float32 |-> 4, float16 |-> 2, bfloat16 |-> 2, uint8 |-> 1, int8 |-> 1]

\* out = ops.zeros(((n + 1) // mod, 1), dtype=quant_storage): the bytes of
\* the packed buffer quantize_4bit allocates for n elements
PackedBytes(n, quant_storage) ==
  LET mod == dtype2bytes[quant_storage] * 2
  IN ((n + 1) \div mod) * dtype2bytes[quant_storage]

\* quantize_4bit(A, blocksize=blocksize, compress_statistics=..., quant_type=...,
\* quant_storage=...), no absmax and no out buffer passed in
quantize_4bit(n, dtype, device, blocksize, compress_statistics, quant_type, quant_storage) ==
  IF device # "cuda" THEN Raised("NotImplementedError")
  ELSE IF quant_type \notin {"fp4", "nf4"} THEN Raised("NotImplementedError")
  ELSE IF blocksize \notin SupportedBlocksizes THEN Raised("AssertionError")
  ELSE IF dtype \notin FloatDTypes THEN Raised("ValueError")
  ELSE LET code == get_4bit_type(quant_type, 64)
           call == Kernel("cquantize_blockwise_" \o quant_type, blocksize,
                          Tensor(Blocks(n, blocksize)), PackedBytes(n, quant_storage))
       IN IF code.err # "" THEN After(<<call>>, Raised(code.err))
          ELSE After(<<call>>,
                     Returned((n + 1) \div (dtype2bytes[quant_storage] * 2),
                              State4bit(n, dtype, blocksize, compress_statistics,
                                        quant_type, code.code)))

\* ------------------------------------------- serialized records
\* A record key is the list of its dot-separated parts.
valid_qs_type_keys == {"bitsandbytes__fp4", "bitsandbytes__nf4"}

valid_qs_keys ==
  { "absmax", "quant_map", "nested_absmax", "nested_quant_map", "quant_state",
    "quant_type", "blocksize", "dtype", "shape", "nested_blocksize", "nested_dtype",
    "nested_offset" }

\* str(dtype) is produced by the tensor library. Two forms are in use:
\* the qualified name the strip call is written for ("mindspore.float16")
\* and the capitalised type name ("Float16"). Text is a list of characters.
Chars(name) ==
  CASE name = "float32" -> <<"f", "l", "o", "a", "t", "3", "2">>
    [] name = "float16" -> <<"f", "l", "o", "a", "t", "1", "6">>
    [] name = "bfloat16" -> <<"b", "f", "l", "o", "a", "t", "1", "6">>

Qualifier == <<"m", "i", "n", "d", "s", "p", "o", "r", "e", ".">>

DTypeStyles == {"qualified", "capitalised"}

Capitalised(name) ==
  CASE name = "float32" -> <<"F", "l", "o", "a", "t", "3", "2">>
    [] name = "float16" -> <<"F", "l", "o", "a", "t", "1", "6">>
    [] name = "bfloat16" -> <<"B", "F", "l", "o", "a", "t", "1", "6">>

dtype_str(dtype, style) ==
  IF style = "qualified" THEN Qualifier \o Chars(dtype) ELSE Capitalised(dtype)

\* str.strip(chars): drop leading and trailing characters that are in chars
RECURSIVE lstrip(_, _)
lstrip(text, chars) ==
  IF text # <<>> /\ Head(text) \in chars THEN lstrip(Tail(text), chars) ELSE text

RECURSIVE rstrip(_, _)
rstrip(text, chars) ==
  IF text # <<>> /\ text[Len(text)] \in chars
  THEN rstrip(SubSeq(text, 1, Len(text) - 1), chars)
  ELSE text

strip(text, chars) == rstrip(lstrip(text, chars), chars)

StripSet == {Qualifier[i] : i \in 1..Len(Qualifier)}

\* getattr(mindspore, text): the dtype of that name, if there is one
DTypeNamed(text) == {d \in FloatDTypes : Chars(d) = text}

\* dict.update
Update(d, e) == [k \in DOMAIN d \cup DOMAIN e |-> IF k \in DOMAIN e THEN e[k] ELSE d[k]]

Only(d, keys) == [k \in keys |-> d[k]]

\* the offset kept in a record: offset.item()
Item(t) == Val("float", t.v)

\* QuantState.as_dict up to "if not packed"
qs_dict_of(qs, style) ==
  LET base == [k \in {<<"quant_type">>, <<"absmax">>, <<"blocksize">>, <<"quant_map">>,
                      <<"dtype">>, <<"shape">>} |->
                 CASE k = <<"quant_type">> -> qs.quant_type
                   [] k = <<"absmax">> -> qs.absmax
                   [] k = <<"blocksize">> -> Val("int", qs.blocksize)
                   [] k = <<"quant_map">> -> qs.code
                   [] k = <<"dtype">> -> Val("str", strip(dtype_str(qs.dtype, style), StripSet))
                   [] k = <<"shape">> -> Val("tuple", qs.shape.v)]
      more == [k \in {<<"nested_absmax">>, <<"nested_blocksize">>, <<"nested_quant_map">>,
                      <<"nested_dtype">>, <<"nested_offset">>} |->
                 CASE k = <<"nested_absmax">> -> qs.state2[1].absmax
                   [] k = <<"nested_blocksize">> -> Val("int", qs.state2[1].blocksize)
                   [] k = <<"nested_quant_map">> -> qs.state2[1].code
                   [] k = <<"nested_dtype">> ->
                        Val("str", strip(dtype_str(qs.state2[1].dtype, style), StripSet))
                   [] k = <<"nested_offset">> -> Item(qs.offset)]
  IN IF qs.nested THEN Update(base, more) ELSE base

\* bitsandbytes.utils.pack_dict_to_tensor: the non-tensor entries as one
\* binary blob (JSON text); a tuple is written as a list
pack_dict_to_tensor(d) ==
  Tensor([k \in DOMAIN d |-> IF d[k].t = "tuple" THEN Val("list", d[k].v) ELSE d[k]])

\* bitsandbytes.utils.unpack_tensor_to_dict
unpack_tensor_to_dict(blob) == blob.v

\* QuantState.as_dict
as_dict(qs, packed, style) ==
  LET qs_dict == qs_dict_of(qs, style)
      tensors == {k \in DOMAIN qs_dict : qs_dict[k].t = "Tensor"}
  IN IF ~ packed THEN qs_dict
     ELSE Update(Only(qs_dict, tensors),
                 [k \in {<<"quant_state", "bitsandbytes__" \o qs.quant_type.v>>} |->
                    pack_dict_to_tensor(Only(qs_dict, DOMAIN qs_dict \ tensors))])

Failed(e) == [err |-> e, qs |-> <<>>]
Loaded(qs) == [err |-> "", qs |-> <<qs>>]

\* qs_dict = {k.split(".")[-1]: v for k, v in qs_dict.items()}
StripPrefixes(d) ==
  [k \in {<<j[Len(j)]>> : j \in DOMAIN d} |->
     d[CHOOSE j \in DOMAIN d : j[Len(j)] = k[1]]]

Field(d, name) == d[<<name>>]

\* mindspore.Size(qs_dict["shape"]) if qs_dict["shape"] is not None else None
Size(v) == IF v.t = "None" THEN None ELSE Val("tuple", v.v)

\* QuantState.from_dict from "if "nested_absmax" in qs_dict" on
Build(d) ==
  LET nested == <<"nested_absmax">> \in DOMAIN d
      dt2 == IF nested THEN DTypeNamed(Field(d, "nested_dtype").v) ELSE {"float32"}
      dt == DTypeNamed(Field(d, "dtype").v)
  IN IF dt2 = {} \/ dt = {} THEN Failed("AttributeError")
     ELSE Loaded(QuantState(
            Field(d, "absmax"), Size(Field(d, "shape")), Field(d, "quant_map"),
            Field(d, "blocksize").v, Field(d, "quant_type"), CHOOSE x \in dt : TRUE,
            IF nested THEN Tensor(Field(d, "nested_offset").v) ELSE None,
            IF nested
            THEN <<QuantState(Field(d, "nested_absmax"), None, Field(d, "nested_quant_map"),
                              Field(d, "nested_blocksize").v, None, CHOOSE x \in dt2 : TRUE,
                              None, <<>>)>>
            ELSE <<>>))

\* QuantState.from_dict after the two tests on qs_key
Unpack(d, qs_key) ==
  LET flat == IF qs_key = {} THEN d
              ELSE Update(Only(d, DOMAIN d \ qs_key),
                          unpack_tensor_to_dict(d[CHOOSE k \in qs_key : TRUE]))
      bare == StripPrefixes(flat)
  IN IF ~ ({k[1] : k \in DOMAIN bare} \subseteq valid_qs_keys)
     THEN Failed("AssertionError")
     ELSE Build(bare)

\* QuantState.from_dict
from_dict(d) ==
  LET qs_key == {k \in DOMAIN d : (\E i \in 1..Len(k) : k[i] = "quant_state")
                                   /\ d[k].t = "Tensor"}
  IN IF qs_key = {} /\ <<"quant_type">> \notin DOMAIN d THEN Failed("ValueError")
     ELSE IF Cardinality(qs_key) # 1
             \/ (\E k \in qs_key : k[Len(k)] \notin valid_qs_type_keys)
          THEN Failed("ValueError")
          ELSE Unpack(d, qs_key)

\* the two branches QuantState.__eq__ takes for offset and for state2
SameOrBothNone(x, y, same) ==
  IF x.t # "None" /\ y.t # "None" THEN same ELSE x.t = y.t

\* QuantState.__eq__
RECURSIVE QuantStateEq(_, _)
QuantStateEq(a, b) ==
  /\ a.absmax = b.absmax
  /\ a.shape = b.shape
  /\ a.code = b.code
  /\ a.dtype = b.dtype
  /\ a.blocksize = b.blocksize
  /\ a.quant_type = b.quant_type
  /\ SameOrBothNone(a.offset, b.offset, a.offset = b.offset)
  /\ IF a.state2 # <<>> /\ b.state2 # <<>>
     THEN QuantStateEq(a.state2[1], b.state2[1])
     ELSE a.state2 = b.state2

\* ------------------------------------------------------------- layers
\* Linear8bitLt.__init__
NewLayerState(d, t, fp16) ==
  LET a == SetAttr(NewState(d), "threshold", t)
      b == SetAttr(a, "has_fp16_weights", fp16)
  IN IF t > 0 /\ ~ fp16 THEN SetAttr(b, "use_pool", TRUE) ELSE b

LayerStates(d) == { NewLayerState(d, t, fp16) : t \in Thresholds, fp16 \in BOOLEAN }

NoWeight == [CB |-> "None", SCB |-> "None"]

\* the record of an operation that is no matmul call
NoCall ==
  [ kind |-> "none", s |-> 0, aEmpty |-> FALSE, bEmpty |-> FALSE, hasGrad |-> FALSE,
    res |-> "none", path |-> "none", log |-> <<>>, zeroed |-> {}, added |-> {},
    status |-> 0, exc |-> <<>> ]

\* the record of a matmul call that ended with frame fr
CallRecord(kind, s, fr, A, bEmpty, hasGrad) ==
  [ kind |-> kind, s |-> s, aEmpty |-> IsEmpty(A), bEmpty |-> bEmpty,
    hasGrad |-> hasGrad,
    res |-> IF IsEmpty(A) THEN "empty" ELSE IF fr.err THEN "error" ELSE "ok",
    path |-> fr.path, log |-> fr.log, zeroed |-> fr.zeroed, added |-> fr.added,
    status |-> fr.status, exc |-> fr.exc ]

Count(log, step) == Cardinality({i \in 1..Len(log) : log[i] = step})

Bump(n, log) ==
  IF n + Count(log, "transformB") > MaxTransforms THEN MaxTransforms
  ELSE n + Count(log, "transformB")

\* has_grad: read from B.grad when full-precision weights are kept, else False
GradInputs(st, c) == IF GetAttr(st, c, "has_fp16_weights") THEN BOOLEAN ELSE {FALSE}

\* no quantization-state function has been called
Nothing == [kind |-> "none"]

InitOn(devices) ==
  /\ dev \in devices
  /\ cls = ClassAttrs(dev)
  /\ inst \in [States -> LayerStates(dev)]
  /\ inst[2] = NewLayerState(dev, 0, TRUE)
  /\ weight = [s \in States |-> NoWeight]
  /\ pool = FALSE
  /\ last = NoCall
  /\ hist = [s \in States |-> 0]
  /\ qin = Nothing
  /\ qout = Nothing

\* Linear8bitLt.quant / Linear8bitLt.cuda
Quant(s) ==
  /\ weight' = IF GetAttr(inst[s], cls, "has_fp16_weights") THEN weight
               ELSE [weight EXCEPT ![s] = [CB |-> "T", SCB |-> "T"]]
  /\ hist' = [hist EXCEPT ![s] = 0]
  /\ last' = NoCall
  /\ UNCHANGED <<inst, cls, dev, pool, qin, qout>>

\* Linear8bitLt.init_8bit_state
init_8bit_state(st, w) == SetAttr(SetAttr(st, "CB", w.CB), "SCB", w.SCB)

\* a forward that keeps the row-major copy
DropRowMajor_never(st, c) == st

\* the tail of Linear8bitLt.forward
DropRowMajor(st, c) ==
  IF ~ GetAttr(st, c, "has_fp16_weights")
     /\ GetAttr(st, c, "CB") # "None" /\ GetAttr(st, c, "CxB") # "None"
  THEN DelAttr(st, "CB")
  ELSE st

\* the state at the call of bnb.matmul inside Linear8bitLt.forward
ForwardEntry(st, w, training) ==
  IF w.CB # "None"
  THEN init_8bit_state(SetAttr(st, "is_training", training), w)
  ELSE SetAttr(st, "is_training", training)

\* Linear8bitLt.forward; a call that raises leaves the tail undone
Forward(s) ==
  \E A \in Activations, bv \in BiasKinds, training \in BOOLEAN,
     hasGrad \in GradInputs(inst[s], cls) :
    \E fr \in {construct(Frame(ForwardEntry(inst[s], weight[s], training), cls, FALSE),
                         A, hasGrad, bv, dev)} :
       /\ inst' = [inst EXCEPT ![s] = IF fr.err THEN fr.st ELSE DropRowMajor(fr.st, cls)]
       /\ weight' = [weight EXCEPT ![s] = NoWeight]
       /\ pool' = (pool \/ fr.made)
       /\ last' = CallRecord("forward", s, fr, A, FALSE, hasGrad)
       /\ hist' = [hist EXCEPT ![s] = Bump(@, fr.log)]
       /\ UNCHANGED <<cls, dev, qin, qout>>

\* Linear8bitLt.forward on a backend whose integer GEMM fails with
\* ERR_NOT_IMPLEMENTED (100) or with a cublasLt status
ForwardFailing(s) ==
  \E A \in Activations, bv \in BiasKinds, training \in BOOLEAN,
     hasGrad \in GradInputs(inst[s], cls), has_error \in {1, 100} :
    \E fr \in {construct([Frame(ForwardEntry(inst[s], weight[s], training), cls, FALSE)
                            EXCEPT !.status = has_error],
                         A, hasGrad, bv, dev)} :
       /\ inst' = [inst EXCEPT ![s] = IF fr.err THEN fr.st ELSE DropRowMajor(fr.st, cls)]
       /\ weight' = [weight EXCEPT ![s] = NoWeight]
       /\ pool' = (pool \/ fr.made)
       /\ last' = CallRecord("forward", s, fr, A, FALSE, hasGrad)
       /\ hist' = [hist EXCEPT ![s] = Bump(@, fr.log)]
       /\ UNCHANGED <<cls, dev, qin, qout>>

\* the state bnb.matmul hands to MatMul8bitLt
MatmulEntry(st, t) == IF t > 0 THEN SetAttr(st, "threshold", t) ELSE st

\* bnb.matmul with an explicit state
MatmulCall(s) ==
  \E A \in Activations, bv \in BiasKinds, t \in Thresholds,
     hasGrad \in GradInputs(inst[s], cls) :
    \E fr \in {construct(Frame(MatmulEntry(inst[s], t), cls, FALSE), A, hasGrad, bv, dev)} :
       /\ inst' = [inst EXCEPT ![s] = fr.st]
       /\ pool' = (pool \/ fr.made)
       /\ last' = CallRecord("matmul", s, fr, A, FALSE, hasGrad)
       /\ hist' = [hist EXCEPT ![s] = Bump(@, fr.log)]
       /\ UNCHANGED <<cls, weight, dev, qin, qout>>

\* bnb.matmul with state=None: state = state or MatmulLtState()
MatmulFresh ==
  \E A \in Activations, bEmpty \in BOOLEAN, hasGrad \in BOOLEAN, t \in Thresholds :
    \E fr \in {construct(Frame(MatmulEntry(NewState(dev), t), cls, FALSE),
                         A, hasGrad, "None", dev)} :
       /\ pool' = (pool \/ fr.made)
       /\ last' = CallRecord("fresh", 0, fr, A, bEmpty, hasGrad)
       /\ UNCHANGED <<inst, cls, weight, dev, hist, qin, qout>>

\* MatMul8bitLt()(A, B) with the state argument left at its default, which
\* is the class MatmulLtState itself
DirectDefault ==
  \E A \in Activations, hasGrad \in BOOLEAN :
    \E fr \in {construct(Frame(NewState(dev), cls, TRUE), A, hasGrad, "None", dev)} :
       /\ cls' = fr.c
       /\ pool' = (pool \/ fr.made)
       /\ last' = CallRecord("direct", 0, fr, A, FALSE, hasGrad)
       /\ UNCHANGED <<inst, weight, dev, hist, qin, qout>>

\* state.reset_grads() by the owner of the state, when the weight changes
ResetGrads(s) ==
  /\ inst' = [inst EXCEPT ![s] = reset_grads(@)]
  /\ hist' = [hist EXCEPT ![s] = 0]
  /\ last' = [NoCall EXCEPT !.kind = "reset", !.s = s]
  /\ UNCHANGED <<cls, weight, dev, pool, qin, qout>>

\* the caller sets or clears state.force_no_igemmlt
SetForce(s) ==
  \E b \in BOOLEAN :
    /\ inst' = [inst EXCEPT ![s] = SetAttr(@, "force_no_igemmlt", b)]
    /\ last' = NoCall
    /\ UNCHANGED <<cls, weight, dev, pool, hist, qin, qout>>

\* nvidia-smi reports another device
SetDevice ==
  \E d \in Devices :
    /\ dev' = d
    /\ last' = NoCall
    /\ UNCHANGED <<inst, cls, weight, pool, hist, qin, qout>>

\* MatMul4Bit.forward; it keeps nothing between calls
MatMul4BitCall ==
  \E A \in Activations, bEmpty \in BOOLEAN :
    /\ last' = [NoCall EXCEPT !.kind = "matmul4bit", !.aEmpty = IsEmpty(A),
                              !.bEmpty = bEmpty,
                              !.res = IF IsEmpty(A) THEN "empty" ELSE "ok",
                              !.path = IF IsEmpty(A) THEN "none" ELSE "dense",
                              !.log = IF IsEmpty(A) THEN <<>> ELSE <<"dequantB", "dense">>]
    /\ UNCHANGED <<inst, cls, weight, dev, pool, hist, qin, qout>>

\* one layer on a device with int8 tensor cores
Init == InitOn({d \in Devices : d.cap = <<8, 0>>})

Next ==
  \/ Quant(1)
  \/ Forward(1)
  \/ ResetGrads(1)
  \/ SetForce(1)

Spec == Init /\ [][Next]_vars

\* one layer on a device with int8 tensor cores and a backend that may fail
NextGemm ==
  \/ Quant(1)
  \/ Forward(1)
  \/ ForwardFailing(1)
  \/ SetForce(1)

SpecGemm == Init /\ [][NextGemm]_vars

\* one layer, the device reported by nvidia-smi read anew at every call
InitDev == InitOn(Devices)

NextDev ==
  \/ Quant(1)
  \/ Forward(1)
  \/ SetForce(1)
  \/ SetDevice

SpecDev == InitDev /\ [][NextDev]_vars

\* two state objects; calls are given the first, none, or the default, and
\* the second belongs to a layer that is not called
NextIso ==
  \/ MatmulCall(1)
  \/ MatmulFresh
  \/ DirectDefault
  \/ MatMul4BitCall

SpecIso == Init /\ [][NextIso]_vars

\* ------------------------------------------- quantization calls
\* the matmul side at rest
Idle ==
  /\ dev \in {d \in Devices : d.cap = <<8, 0>>}
  /\ cls = ClassAttrs(dev)
  /\ inst = [s \in States |-> NewState(dev)]
  /\ weight = [s \in States |-> NoWeight]
  /\ pool = FALSE
  /\ last = NoCall
  /\ hist = [s \in States |-> 0]

\* block counts at the start of the range and around the multiples of the
\* blocksize nb of the nested statistics
BlockCounts(nb) == (0..MaxBlocks) \cup {nb * j + d : j \in 1..MaxBlocks, d \in {0, 1}}

\* element counts on and beside the block boundaries
Sizes(bs, nb) == {b * bs + r : b \in BlockCounts(nb), r \in {0, 1, bs - 1}}

Blocksizes == SupportedBlocksizes \cup {100}
DTypes == FloatDTypes \cup {"int8"}

BlockwiseInputs ==
  UNION { { [kind |-> "quantize_blockwise", n |-> n, dtype |-> dt, device |-> dv,
             blocksize |-> bs, nested |-> ne, quant_type |-> "none"] :
              n \in Sizes(bs, bs), dt \in DTypes, dv \in {"cuda", "cpu"}, ne \in BOOLEAN } :
          bs \in Blocksizes }

\* calls of quantize_4bit that pack into one of the given storage dtypes
FourBitInputs(storages) ==
  UNION { { [kind |-> "quantize_4bit", n |-> n, dtype |-> dt, device |-> dv,
             blocksize |-> bs, nested |-> ne, quant_type |-> qt, quant_storage |-> qst] :
              n \in Sizes(bs, 256), dt \in DTypes, dv \in {"cuda", "cpu"}, ne \in BOOLEAN,
              qt \in {"fp4", "nf4", "int4"}, qst \in storages } :
          bs \in Blocksizes }

InitQuant ==
  /\ Idle
  /\ qin \in BlockwiseInputs \cup FourBitInputs(DOMAIN dtype2bytes)
  /\ qout = Nothing

CallQuantizeBlockwise ==
  /\ qin.kind = "quantize_blockwise" /\ qout = Nothing
  /\ qout' = [kind |-> "quantized",
              res |-> quantize_blockwise(qin.n, qin.dtype, qin.device, qin.blocksize,
                                         qin.nested)]
  /\ UNCHANGED <<inst, cls, weight, dev, pool, last, hist, qin>>

CallQuantize4bit ==
  /\ qin.kind = "quantize_4bit" /\ qout = Nothing
  /\ qout' = [kind |-> "quantized",
              res |-> quantize_4bit(qin.n, qin.dtype, qin.device, qin.blocksize,
                                    qin.nested, qin.quant_type, qin.quant_storage)]
  /\ UNCHANGED <<inst, cls, weight, dev, pool, last, hist, qin>>

NextQuant ==
  \/ CallQuantizeBlockwise
  \/ CallQuantize4bit

SpecQuant == InitQuant /\ [][NextQuant]_vars

\* QuantState objects of the 4-bit kinds, with the fields quantize_4bit
\* hands to the constructor, each to be saved packed or unpacked
SavedStates ==
  UNION { { State4bit(n, dt, bs, cs, qt, Tensor(qt)) :
              n \in Sizes(bs, 256), dt \in FloatDTypes, cs \in BOOLEAN, qt \in {"fp4", "nf4"} } :
          bs \in {64, 4096} }

InitQS ==
  /\ Idle
  /\ qin \in [kind : {"state"}, state : SavedStates, packed : BOOLEAN, style : DTypeStyles]
  /\ qout = Nothing

\* record = state.as_dict(packed)
SaveState ==
  /\ qin.kind = "state" /\ qout = Nothing
  /\ qout' = [kind |-> "record", rec |-> as_dict(qin.state, qin.packed, qin.style),
              res |-> Failed("")]
  /\ UNCHANGED <<inst, cls, weight, dev, pool, last, hist, qin>>

\* QuantState.from_dict(record)
LoadState ==
  /\ qout.kind = "record"
  /\ qout' = [qout EXCEPT !.kind = "loaded", !.res = from_dict(qout.rec)]
  /\ UNCHANGED <<inst, cls, weight, dev, pool, last, hist, qin>>

NextQS ==
  \/ SaveState
  \/ LoadState

SpecQS == InitQS /\ [][NextQS]_vars

\* ======================================================= codebooks
\* A table entry is an exact number sign * (n / d) * 10^e, kept in the one
\* form with n / d in lowest terms and 0.1 < n / d <= 1 (zero: sign 0), so
\* that equal numbers are equal records. Rounding of the floating-point
\* arithmetic is left out.
RECURSIVE GCD(_, _)
GCD(a, b) == IF b = 0 THEN a ELSE GCD(b, a % b)

RECURSIVE Norm(_, _, _)
Norm(n, d, e) ==
  LET g == GCD(n, d)
      a == n \div g
      b == d \div g
  IN IF a > b THEN Norm(a, b * 10, e + 1)
     ELSE IF 10 * a <= b THEN Norm(a * 10, b, e - 1)
     ELSE [n |-> a, d |-> b, e |-> e]

Zero == [s |-> 0, n |-> 0, d |-> 1, e |-> 0]

\* the number (p / q) * 10^k, q > 0
Number(p, q, k) ==
  IF p = 0 THEN Zero
  ELSE LET m == Norm(IF p < 0 THEN -p ELSE p, q, k)
       IN [s |-> IF p < 0 THEN -1 ELSE 1, n |-> m.n, d |-> m.d, e |-> m.e]

One == Number(1, 1, 0)

Neg(v) == [v EXCEPT !.s = -v.s]

MagLt(a, b) == a.e < b.e \/ (a.e = b.e /\ a.n * b.d < b.n * a.d)

\* a < b
Lt(a, b) ==
  \/ a.s < b.s
  \/ a.s = 1 /\ b.s = 1 /\ MagLt(a, b)
  \/ a.s = -1 /\ b.s = -1 /\ MagLt(b, a)

\* a / m, m # 0
DivBy(a, m) ==
  IF a.s = 0 THEN Zero
  ELSE LET q == Norm(a.n * m.d, a.d * m.n, a.e - m.e)
       IN [s |-> a.s * m.s, n |-> q.n, d |-> q.d, e |-> q.e]

\* list.sort() / Tensor.sort()
Sort(seq) == SortSeq(seq, Lt)

\* Tensor.max()
Max(seq) == CHOOSE m \in {seq[i] : i \in 1..Len(seq)} : \A j \in 1..Len(seq) : ~ Lt(m, seq[j])

Abs(v) == [v EXCEPT !.s = IF v.s = 0 THEN 0 ELSE 1]

\* [0] * gap
Zeros(gap) == [i \in 1..gap |-> Zero]

\* ops.linspace(a, b, steps) for a = an / ad and b = bn / bd, as the
\* fractions [p, q] = p / q; one step yields the start value alone
linspace(an, ad, bn, bd, steps) ==
  IF steps = 1 THEN << [p |-> an, q |-> ad] >>
  ELSE [ k \in 1..steps |->
           [ p |-> an * bd * (steps - 1) + (k - 1) * (bn * ad - an * bd),
             q |-> ad * bd * (steps - 1) ] ]

Built(code) == [err |-> "", code |-> code]
BuildFailed(e) == [err |-> e, code |-> <<>>]

\* the linspace values returned as they are, without the zeros in the middle
create_linear_map_unpadded(signed, total_bits, add_zero) ==
  LET lin == linspace(IF signed THEN -1 ELSE 0, 1, 1, 1,
                      IF (add_zero \/ total_bits < 8) /\ signed
                      THEN 2^total_bits - 1 ELSE 2^total_bits)
  IN Built([k \in 1..Len(lin) |-> Number(lin[k].p, lin[k].q, 0)])

\* create_linear_map(signed, total_bits, add_zero)
create_linear_map(signed, total_bits, add_zero) ==
  LET sign == IF signed THEN -1 ELSE 0
      total_values == IF (add_zero \/ total_bits < 8) /\ signed
                      THEN 2^total_bits - 1 ELSE 2^total_bits
      lin == linspace(sign, 1, 1, 1, total_values)
      values == [k \in 1..Len(lin) |-> Number(lin[k].p, lin[k].q, 0)]
      gap == 256 - Len(values)
      l == Len(values) \div 2
  IN IF gap = 0 THEN Built(values)
     ELSE Built(SubSeq(values, 1, l) \o Zeros(gap) \o SubSeq(values, l + 1, Len(values)))

\* value of one (evalue, bit_pattern) pair of create_fp8_map; the k-th
\* pattern of itertools.product([0, 1], repeat=p) spells k in binary, most
\* significant bit first, so its fraction is k / 2^p
Fp8Value(evalue, k, exponent_bits, precision_bits) ==
  LET bias == 2^(exponent_bits - 1)
      p == (IF evalue # 0 THEN 2^precision_bits ELSE 0) + k
      x == IF evalue = 0 THEN -bias ELSE -(evalue - bias - 1)
  IN IF x >= 0 THEN Number(p * 2^x, 2^precision_bits, 0)
     ELSE Number(p, 2^precision_bits * 2^(-x), 0)

\* create_fp8_map(signed, exponent_bits, precision_bits, total_bits)
create_fp8_map(signed, exponent_bits, precision_bits, total_bits) ==
  LET has_sign == IF signed THEN 1 ELSE 0
      np == 2^precision_bits
      per == IF signed THEN 2 ELSE 1
      \* entry j (from 0) of the list the two loops append to
      Entry(j) == LET pair == j \div per
                      v == Fp8Value(pair \div np, pair % np, exponent_bits, precision_bits)
                  IN IF signed /\ j % 2 = 1 THEN Neg(v) ELSE v
      values == [j \in 1..(2^exponent_bits * np * per) |-> Entry(j - 1)]
  IN IF exponent_bits + precision_bits # total_bits - has_sign
     THEN BuildFailed("AssertionError")
     ELSE IF Len(values) # 2^total_bits THEN BuildFailed("AssertionError")
     ELSE LET padded == IF total_bits < 8
                        THEN Sort(Sort(values) \o Zeros(256 - Len(values)))
                        ELSE Sort(Sort(values))
              top == Max(padded)
          IN Built([i \in 1..Len(padded) |-> DivBy(padded[i], top)])

\* int(2 ** x + 1): a negative x gives a fraction below 1, cut off by int()
FractionItems(x) == IF x >= 0 THEN 2^x + 1 ELSE 1

\* (10 ** k) * means for boundaries = ops.linspace(0.1, 1, items) and
\* means = (boundaries[:-1] + boundaries[1:]) / 2.0, negated if minus
Means(items, k, minus) ==
  LET b == linspace(1, 10, 1, 1, items)
  IN [ j \in 1..(items - 1) |->
         LET m == Number(b[j].p * b[j + 1].q + b[j + 1].p * b[j].q,
                         2 * b[j].q * b[j + 1].q, k)
         IN IF minus THEN Neg(m) ELSE m ]

\* the data list after the passes i .. max_exponent_bits - 1 of the loop
RECURSIVE DynamicLoop(_, _, _, _, _)
DynamicLoop(i, data, signed, max_exponent_bits, non_sign_bits) ==
  IF i >= max_exponent_bits THEN data
  ELSE LET x == i + non_sign_bits - max_exponent_bits
           fraction_items == IF signed THEN FractionItems(x) ELSE FractionItems(x + 1)
           k == -(max_exponent_bits - 1) + i
           pos == data \o Means(fraction_items, k, FALSE)
       IN DynamicLoop(i + 1,
                      IF signed THEN pos \o Means(fraction_items, k, TRUE) ELSE pos,
                      signed, max_exponent_bits, non_sign_bits)

\* create_dynamic_map(signed, max_exponent_bits, total_bits), max_exponent_bits >= 1
create_dynamic_map(signed, max_exponent_bits, total_bits) ==
  LET non_sign_bits == total_bits - 1
      \* 2 ** (non_sign_bits - max_exponent_bits) - 1, positive only for a
      \* positive exponent
      additional_items == IF non_sign_bits - max_exponent_bits >= 0
                          THEN 2^(non_sign_bits - max_exponent_bits) - 1 ELSE 0
      looped == DynamicLoop(0, <<>>, signed, max_exponent_bits, non_sign_bits)
      \* i keeps the value of the last pass: the factor is 10 ** 0
      extra == IF additional_items > 0
               THEN Means(additional_items + 1, 0, FALSE)
                      \o (IF signed THEN Means(additional_items + 1, 0, TRUE) ELSE <<>>)
               ELSE <<>>
      data == looped \o extra \o <<Zero, One>>
  IN IF Len(data) # 2^total_bits THEN BuildFailed("AssertionError")
     ELSE Built(Sort(data \o Zeros(256 - Len(data))))

\* ---- codebook calls
Typenames == {"nf4", "fp4", "int4", "af4", "fp8"}

CodebookInputs ==
  [ kind : {"create_linear_map"}, signed : BOOLEAN, total_bits : 1..8, add_zero : BOOLEAN,
    exponent_bits : {5}, precision_bits : {2}, max_exponent_bits : {7},
    typename : {"-"}, blocksize : {64} ]
  \cup
  [ kind : {"create_fp8_map"}, signed : BOOLEAN, total_bits : 1..8, add_zero : {TRUE},
    exponent_bits : 1..3, precision_bits : 0..5, max_exponent_bits : {7},
    typename : {"-"}, blocksize : {64} ]
  \cup
  [ kind : {"create_dynamic_map"}, signed : BOOLEAN, total_bits : 1..8, add_zero : {TRUE},
    exponent_bits : {5}, precision_bits : {2}, max_exponent_bits : 1..7,
    typename : {"-"}, blocksize : {64} ]
  \cup
  [ kind : {"get_4bit_type"}, signed : {TRUE}, total_bits : {4}, add_zero : {TRUE},
    exponent_bits : {5}, precision_bits : {2}, max_exponent_bits : {7},
    typename : Typenames, blocksize : {64, 128} ]

InitCode ==
  /\ Idle
  /\ qin \in CodebookInputs
  /\ qout = Nothing

CallCreateLinearMap ==
  /\ qin.kind = "create_linear_map" /\ qout = Nothing
  /\ qout' = [kind |-> "codebook",
              res |-> create_linear_map(qin.signed, qin.total_bits, qin.add_zero)]
  /\ UNCHANGED <<inst, cls, weight, dev, pool, last, hist, qin>>

CallCreateFp8Map ==
  /\ qin.kind = "create_fp8_map" /\ qout = Nothing
  /\ qout' = [kind |-> "codebook",
              res |-> create_fp8_map(qin.signed, qin.exponent_bits, qin.precision_bits,
                                     qin.total_bits)]
  /\ UNCHANGED <<inst, cls, weight, dev, pool, last, hist, qin>>

CallCreateDynamicMap ==
  /\ qin.kind = "create_dynamic_map" /\ qout = Nothing
  /\ qout' = [kind |-> "codebook",
              res |-> create_dynamic_map(qin.signed, qin.max_exponent_bits, qin.total_bits)]
  /\ UNCHANGED <<inst, cls, weight, dev, pool, last, hist, qin>>

CallGet4bitType ==
  /\ qin.kind = "get_4bit_type" /\ qout = Nothing
  /\ qout' = [kind |-> "codebook",
              res |-> LET r == get_4bit_type(qin.typename, qin.blocksize)
                      IN IF r.err # "" THEN BuildFailed(r.err) ELSE Built(r.code)]
  /\ UNCHANGED <<inst, cls, weight, dev, pool, last, hist, qin>>

NextCode ==
  \/ CallCreateLinearMap
  \/ CallCreateFp8Map
  \/ CallCreateDynamicMap
  \/ CallGet4bitType

SpecCode == InitCode /\ [][NextCode]_vars

\* ================================================= dequantization
\* number of elements of a shape
RECURSIVE numel(_)
numel(shape) == IF shape = <<>> THEN 1 ELSE Head(shape) * numel(Tail(shape))

Dequantized(shape, dtype) == [err |-> "", shape |-> shape, dtype |-> dtype, kernel |-> <<>>]
DequantFailed(e) == [err |-> e, shape |-> <<>>, dtype |-> "", kernel |-> <<>>]

\* absmax = dequantize_blockwise(quant_state.absmax, quant_state.state2);
\* absmax += quant_state.offset: a new float32 tensor of the same length
Rescaled(qs) == Val("dequantized+offset", qs.absmax.v)

\* dequantize_blockwise(A, quant_state) for a tensor A of the given shape
\* on `device`; the result has the shape of A and the dtype of the state
RECURSIVE dequantize_blockwise(_, _, _)
dequantize_blockwise(ashape, device, qs) ==
  LET inner == IF qs.nested
               THEN dequantize_blockwise(<<qs.absmax.v>>, device, qs.state2[1])
               ELSE Dequantized(<<qs.absmax.v>>, "float32")
      absmax == IF qs.nested THEN Rescaled(qs) ELSE qs.absmax
  IN IF inner.err # "" THEN inner
     ELSE IF device # "cpu" /\ qs.blocksize \notin SupportedBlocksizes
          THEN After(inner.kernel, DequantFailed("ValueError"))
     ELSE IF device # "cpu" /\ qs.dtype \notin FloatDTypes
          THEN After(inner.kernel, DequantFailed("ValueError"))
     ELSE IF device # "cpu"
          THEN After(inner.kernel \o <<Kernel("cdequantize_blockwise", qs.blocksize,
                                              absmax, numel(ashape))>>,
                     Dequantized(ashape, qs.dtype))
     ELSE After(inner.kernel \o <<Kernel("cdequantize_blockwise_cpu_fp32", qs.blocksize,
                                         qs.absmax, numel(ashape))>>,
                Dequantized(ashape, qs.dtype))

\* Tensor.t(): a tensor of up to two dimensions with its dimensions
\* reversed; more dimensions are refused
Tensor_t(out) ==
  IF Len(out.shape) > 2 THEN After(out.kernel, DequantFailed("ValueError"))
  ELSE [out EXCEPT !.shape = [i \in 1..Len(out.shape) |-> out.shape[Len(out.shape) + 1 - i]]]

\* dequantize_4bit(A, quant_state, blocksize=blocksize, quant_type=quant_type)
\* for a packed tensor A of shape ashape, no out buffer passed in
dequantize_4bit(ashape, qs, blocksize, quant_type) ==
  IF blocksize \notin SupportedBlocksizes THEN DequantFailed("ValueError")
  ELSE IF quant_type \notin {"fp4", "nf4"} THEN DequantFailed("NotImplementedError")
  ELSE LET inner == IF qs.nested
                    THEN dequantize_blockwise(<<qs.absmax.v>>, "cuda", qs.state2[1])
                    ELSE Dequantized(<<qs.absmax.v>>, "float32")
           absmax == IF qs.nested THEN Rescaled(qs) ELSE qs.absmax
           out == After(inner.kernel \o <<Kernel("cdequantize_blockwise_" \o qs.quant_type.v,
                                                qs.blocksize, absmax, numel(qs.shape.v))>>,
                        Dequantized(qs.shape.v, qs.dtype))
       IN IF inner.err # "" THEN inner
          ELSE IF out.dtype \notin FloatDTypes
               THEN After(inner.kernel, DequantFailed("ValueError"))
          ELSE IF ashape[1] = 1 THEN Tensor_t(out)
          ELSE out

\* ---- dequantization calls
\* shapes of one to MaxDim dimensions, each of 1 to 3 entries
Shapes == UNION { [1..k -> 1..3] : k \in 1..MaxDim }

\* the packed buffer quantize_4bit allocates for n elements, and the same
\* buffer seen through a transposed weight
PackedShapes(n) == { <<(n + 1) \div 2, 1>>, <<1, (n + 1) \div 2>> }

DequantInputs ==
  UNION { [ kind : {"dequantize_4bit"}, ashape : PackedShapes(numel(sh)),
            state : { [State4bit(numel(sh), dt, bs, cs, qt, Tensor(qt))
                         EXCEPT !.shape = Val("tuple", sh)] :
                        dt \in DTypes, bs \in {64, 100, 4096}, cs \in BOOLEAN,
                        qt \in {"fp4", "nf4"} },
            blocksize : {64, 100}, quant_type : {"fp4", "fp8"} ] :
          sh \in Shapes }

\* the states quantize_blockwise returns, each handed back with a tensor of
\* the element count it was made for, on either device
DequantBlockwiseInputs ==
  { [kind |-> "dequantize_blockwise", ashape |-> <<q.n>>, device |-> dv,
     state |-> quantize_blockwise(q.n, q.dtype, q.device, q.blocksize, q.nested).state[1]] :
       q \in {b \in BlockwiseInputs :
                quantize_blockwise(b.n, b.dtype, b.device, b.blocksize, b.nested).err = ""},
       dv \in {"cuda", "cpu"} }

InitDeq ==
  /\ Idle
  /\ qin \in DequantInputs \cup DequantBlockwiseInputs
  /\ qout = Nothing

CallDequantize4bit ==
  /\ qin.kind = "dequantize_4bit" /\ qout = Nothing
  /\ qout' = [kind |-> "dequantized",
              res |-> dequantize_4bit(qin.ashape, qin.state, qin.blocksize, qin.quant_type)]
  /\ UNCHANGED <<inst, cls, weight, dev, pool, last, hist, qin>>

CallDequantizeBlockwise ==
  /\ qin.kind = "dequantize_blockwise" /\ qout = Nothing
  /\ qout' = [kind |-> "dequantized",
              res |-> dequantize_blockwise(qin.ashape, qin.device, qin.state)]
  /\ UNCHANGED <<inst, cls, weight, dev, pool, last, hist, qin>>

NextDeq ==
  \/ CallDequantize4bit
  \/ CallDequantizeBlockwise

SpecDeq == InitDeq /\ [][NextDeq]_vars

\* ================================================ transform buffers
Reversed(seq) == [i \in 1..Len(seq) |-> seq[Len(seq) + 1 - i]]

\* the multiple of m just below x
PadTo_down(x, m) == m * (x \div m)

\* m * ((x + m - 1) // m)
PadTo(x, m) == m * ((x + (m - 1)) \div m)

\* get_transform_buffer(shape, dtype, to_order, from_order, transpose): the
\* shape of the zero-filled buffer and the layout state returned with it
get_transform_buffer(shape, to_order, transpose) ==
  IF Len(shape) \notin {2, 3} THEN [err |-> "UnboundLocalError"]
  ELSE LET rows0 == IF Len(shape) = 2 THEN shape[1] ELSE shape[1] * shape[2]
           cols0 == shape[Len(shape)]
           rows == IF transpose THEN cols0 ELSE rows0
           cols == IF transpose THEN rows0 ELSE cols0
           state == IF transpose THEN <<Reversed(shape), to_order>> ELSE <<shape, to_order>>
           Zeroed(sh) == [err |-> "", fill |-> "zeros", shape |-> sh, state |-> state]
       IN CASE to_order \in {"row", "col"} -> Zeroed(shape)
            [] to_order = "col32" -> Zeroed(<<rows, PadTo(cols, 32)>>)
            [] to_order = "col_turing" -> Zeroed(<<PadTo(rows, 8), PadTo(cols, 32)>>)
            [] to_order = "col_ampere" -> Zeroed(<<PadTo(rows, 32), PadTo(cols, 32)>>)
            [] OTHER -> [err |-> "NotImplementedError"]

\* the kernel transform(A, to_order, from_order, transpose=...) dispatches
\* to, "none" where the chain of tests falls through without a call
TransformKernel(to_order, from_order, transpose) ==
  CASE to_order = "col32" -> IF transpose THEN "ctransform_row2col32T" ELSE "ctransform_row2col32"
    [] to_order = "col_turing" ->
         IF transpose THEN "ctransform_row2turingT" ELSE "ctransform_row2turing"
    [] to_order = "col_ampere" ->
         IF transpose THEN "ctransform_row2ampereT" ELSE "ctransform_row2ampere"
    [] to_order = "row" /\ from_order = "col_turing" -> "ctransform_turing2row"
    [] to_order = "row" /\ from_order = "col_ampere" -> "ctransform_ampere2row"
    [] to_order = "row" -> "none"
    [] OTHER -> "NotImplementedError"

\* transform(A, to_order, from_order, out, transpose) for a tensor A of the
\* given shape, with an out buffer passed in or not: the buffer returned,
\* who filled it, and the layout state returned with it
transform(shape, to_order, from_order, out_given, transpose) ==
  LET buf == IF out_given
             THEN [err |-> "", fill |-> "caller", shape |-> shape, state |-> <<shape, to_order>>]
             ELSE get_transform_buffer(shape, to_order, transpose)
      kernel == TransformKernel(to_order, from_order, transpose)
  IN IF buf.err # "" THEN [err |-> buf.err]
     ELSE IF Len(shape) < 2 THEN [err |-> "IndexError"]
     ELSE IF kernel = "NotImplementedError" THEN [err |-> kernel]
     ELSE [err |-> "", kernel |-> kernel, state |-> buf.state,
           out |-> [shape |-> buf.shape, fill |-> IF kernel = "none" THEN buf.fill ELSE kernel]]

\* extents on and beside the multiples of 8 and of 32
Extents == {0, 1, 8, 9, 31, 32, 33}

BufferInputs ==
  [ kind : {"get_transform_buffer"},
    shape : UNION { [1..k -> Extents] : k \in 1..MaxDim },
    to_order : {"row", "col", "col32", "col_turing", "col_ampere", "col4"},
    transpose : BOOLEAN ]

Orders == {"row", "col", "col32", "col_turing", "col_ampere"}

TransformInputs ==
  [ kind : {"transform"},
    shape : UNION { [1..k -> {1, 8, 33}] : k \in 1..MaxDim },
    to_order : Orders \cup {"col4"}, from_order : Orders,
    out_given : BOOLEAN, transpose : BOOLEAN ]

InitBuf ==
  /\ Idle
  /\ qin \in BufferInputs \cup TransformInputs
  /\ qout = Nothing

CallGetTransformBuffer ==
  /\ qin.kind = "get_transform_buffer" /\ qout = Nothing
  /\ qout' = [kind |-> "buffer",
              res |-> get_transform_buffer(qin.shape, qin.to_order, qin.transpose)]
  /\ UNCHANGED <<inst, cls, weight, dev, pool, last, hist, qin>>

CallTransform ==
  /\ qin.kind = "transform" /\ qout = Nothing
  /\ qout' = [kind |-> "transformed",
              res |-> transform(qin.shape, qin.to_order, qin.from_order, qin.out_given,
                                qin.transpose)]
  /\ UNCHANGED <<inst, cls, weight, dev, pool, last, hist, qin>>

NextBuf ==
  \/ CallGetTransformBuffer
  \/ CallTransform

SpecBuf == InitBuf /\ [][NextBuf]_vars

\* ==================================================== tiled layouts
\* A tensor is the row-major list of its elements; list position x holds
\* the element of linear index x - 1. The forward transform of a tile is the
\* permutation pi of its positions: position p of the result holds the
\* element the input has at position pi[p].
transform_tile(tile, pi) == [p \in 1..Len(tile) |-> tile[pi[p]]]

\* one pass only, whatever the tile size
RECURSIVE IndexPasses_one(_, _, _, _)
IndexPasses_one(i, acc, pi, n) ==
  [ T |-> [p \in 1..n |-> acc[p] + (transform_tile([x \in 1..n |-> ((x - 1) % 256) - 128], pi)[p] + 128)],
    passes |-> 1 ]

\* passes i .. of the loop of get_inverse_transform_indices over a tile of n
\* positions, acc being permuted_tile_indices so far
RECURSIVE IndexPasses(_, _, _, _)
IndexPasses(i, acc, pi, n) ==
  LET ith_dim_indices == [x \in 1..n |-> ((x - 1) \div 256^i) % 256]
      sample_tile_i == [x \in 1..n |-> ith_dim_indices[x] - 128]
      permuted_tile_i == transform_tile(sample_tile_i, pi)
      next == [p \in 1..n |-> acc[p] + (permuted_tile_i[p] + 128) * 256^i]
  IN IF n < 256^i \/ i = 7 THEN [T |-> next, passes |-> i + 1]
     ELSE IndexPasses(i + 1, next, pi, n)

\* get_inverse_transform_indices(transform_tile, (d1, d2))
get_inverse_transform_indices(pi, d1, d2) ==
  IndexPasses(0, [p \in 1..(d1 * d2) |-> 0], pi, d1 * d2)

\* the tiled form of the rows x cols matrix M: inside each tile the
\* positions are permuted by pi, and the tiles follow one another column
\* block by column block
to_tiled(M, rows, cols, pi, tile_rows, tile_cols) ==
  LET ts == tile_rows * tile_cols
      nrb == rows \div tile_rows
  IN [ y \in 1..(rows * cols) |->
         LET k == (y - 1) \div ts
             o == pi[((y - 1) % ts) + 1] - 1
             row == (k % nrb) * tile_rows + (o \div tile_cols)
             col == (k \div nrb) * tile_cols + (o % tile_cols)
         IN M[row * cols + col + 1] ]

\* the tiles taken row block by row block
undo_layout_rowblocks(permuted, rows, cols, T, tile_rows, tile_cols) ==
  IF ~ (rows % tile_rows = cols % tile_cols /\ cols % tile_cols = 0)
  THEN [err |-> "AssertionError", out |-> <<>>]
  ELSE LET ts == tile_rows * tile_cols
           ncb == cols \div tile_cols
       IN [ err |-> "",
            out |-> [ y \in 1..(rows * cols) |->
                        LET row == (y - 1) \div cols
                            col == (y - 1) % cols
                            o == (row % tile_rows) * tile_cols + (col % tile_cols)
                            k == (row \div tile_rows) * ncb + (col \div tile_cols)
                            js == {j \in 1..ts : T[j] = o}
                        IN IF js = {} THEN "uninitialized"
                           ELSE permuted[k * ts + (CHOOSE j \in js : \A h \in js : h <= j)] ] ]

\* undo_layout(permuted_tensor, tile_indices) for a permuted tensor of
\* shape (rows, cols) and tile indices T of shape (tile_rows, tile_cols)
undo_layout(permuted, rows, cols, T, tile_rows, tile_cols) ==
  IF ~ (rows % tile_rows = cols % tile_cols /\ cols % tile_cols = 0)
  THEN [err |-> "AssertionError", out |-> <<>>]
  ELSE LET ts == tile_rows * tile_cols
           nt == (rows * cols) \div ts
           nrb == rows \div tile_rows
           ncb == cols \div tile_cols
           \* tensor = permuted_tensor.reshape(-1, ts).t(): entry (j, k)
           tensor(j, k) == permuted[k * ts + j + 1]
           \* outputs[tile_indices.flatten()] = tensor: row T[j] is set from
           \* row j, the last such j if there are several
           outputs(o, k) == LET js == {j \in 1..ts : T[j] = o}
                            IN IF js = {} THEN "uninitialized"
                               ELSE tensor((CHOOSE j \in js : \A h \in js : h <= j) - 1, k)
           \* outputs.reshape(tile_rows, tile_cols, ncb, nrb): entry (a, b, c, d)
           reshaped(a, b, c, d) == outputs(a * tile_cols + b, c * nrb + d)
       IN [ err |-> "",
            \* .permute(3, 0, 2, 1).reshape(rows, cols)
            out |-> [ y \in 1..(rows * cols) |->
                        LET b == (y - 1) % tile_cols
                            c == ((y - 1) \div tile_cols) % ncb
                            a == ((y - 1) \div (tile_cols * ncb)) % tile_rows
                            d == (y - 1) \div (tile_cols * ncb * tile_rows)
                        IN reshaped(a, b, c, d) ] ]

\* ---- layout calls
\* permutations of a large tile: shifts, the reversal and the transposition
LargePermutations(d1, d2) ==
  { [p \in 1..(d1 * d2) |-> ((p - 1 + k) % (d1 * d2)) + 1] : k \in {0, 1, 255, 256, 257} }
  \cup { [p \in 1..(d1 * d2) |-> d1 * d2 + 1 - p] }
  \cup { [p \in 1..(d1 * d2) |-> ((p - 1) % d1) * d2 + ((p - 1) \div d1) + 1] }

\* tile sizes: small ones with every permutation, and the two of
\* _get_tile_size with a few
TileInputs ==
  UNION { [ kind : {"tile"}, d1 : {ts[1]}, d2 : {ts[2]},
            pi : IF ts[1] * ts[2] <= 6 THEN Permutations(1..(ts[1] * ts[2]))
                 ELSE LargePermutations(ts[1], ts[2]),
            rb : 1..MaxTiles, cb : 1..MaxTiles ] :
          ts \in { <<1, 1>>, <<1, 2>>, <<2, 2>>, <<2, 3>>, <<8, 32>>, <<32, 32>> } }

InitTile ==
  /\ Idle
  /\ qin \in TileInputs
  /\ qout = Nothing

\* tile_indices = get_inverse_transform_indices(transform, tile_size)
CallGetInverseTransformIndices ==
  /\ qin.kind = "tile" /\ qout = Nothing
  /\ \E r \in {get_inverse_transform_indices(qin.pi, qin.d1, qin.d2)} :
        qout' = [kind |-> "indices", T |-> r.T, passes |-> r.passes]
  /\ UNCHANGED <<inst, cls, weight, dev, pool, last, hist, qin>>

\* undo_layout(weight, tile_indices) on the tiled form of the matrix whose
\* element of linear index x is x
CallUndoLayout ==
  /\ qout.kind = "indices"
  /\ LET rows == qin.rb * qin.d1
         cols == qin.cb * qin.d2
         M == [y \in 1..(rows * cols) |-> y - 1]
     IN \E r \in {undo_layout(to_tiled(M, rows, cols, qin.pi, qin.d1, qin.d2),
                              rows, cols, qout.T, qin.d1, qin.d2)} :
           qout' = [kind |-> "restored", T |-> qout.T, passes |-> qout.passes,
                    err |-> r.err, out |-> r.out]
  /\ UNCHANGED <<inst, cls, weight, dev, pool, last, hist, qin>>

NextTile ==
  \/ CallGetInverseTransformIndices
  \/ CallUndoLayout

SpecTile == InitTile /\ [][NextTile]_vars

\* ============================================ process-wide singletons
\* The process is kept in qout: the class attribute _instance of
\* GlobalOutlierPooler (0 for None, else the object), the objects created
\* (an object is named after the thread that created it), the name2qmap
\* cache, and for each thread its position in get_instance and in the
\* cache lookup.
Threads == {1, 2}
PoolIdx == 0..NCols
FeatureDims == {4, 8}

\* cls.__new__(cls): an object without attributes
NewPooler == [init |-> FALSE, outliers |-> {}, model_dim |-> {}]

\* GlobalOutlierPooler.initialize
initialize(obj) == [init |-> TRUE, outliers |-> {}, model_dim |-> {}]

\* the index set replaced by the indices of the call
add_outliers_replace(obj, outlier_idx, feature_dim) ==
  LET dim == IF obj.model_dim = {} THEN {feature_dim} ELSE obj.model_dim
  IN IF {feature_dim} # dim THEN [obj EXCEPT !.model_dim = dim]
     ELSE [obj EXCEPT !.model_dim = dim, !.outliers = outlier_idx]

\* GlobalOutlierPooler.add_outliers on an initialized object; model_dim is
\* {} for None and {d} for d
add_outliers(obj, outlier_idx, feature_dim) ==
  LET dim == IF obj.model_dim = {} THEN {feature_dim} ELSE obj.model_dim
  IN IF {feature_dim} # dim THEN [obj EXCEPT !.model_dim = dim]
     ELSE [obj EXCEPT !.model_dim = dim, !.outliers = obj.outliers \cup outlier_idx]

NoCallYet == [t |-> 0, idx |-> {}, dim |-> 0]

InitProcess ==
  /\ Idle
  /\ qin = [kind |-> "process"]
  /\ qout = [ kind |-> "process", instance |-> 0,
              objs |-> [o \in Threads |-> NewPooler], made |-> {},
              pc |-> [t \in Threads |-> "idle"], got |-> [t \in Threads |-> 0],
              accepted |-> {}, call |-> NoCallYet,
              qmap |-> FALSE, builds |-> 0, qpc |-> [t \in Threads |-> "idle"] ]

\* get_instance: `if cls._instance is None`
GetInstanceCheck(t) ==
  /\ qout.pc[t] \in {"idle", "ready"}
  /\ qout' = [qout EXCEPT !.pc[t] = IF qout.instance = 0 THEN "create" ELSE "return",
                          !.call = NoCallYet]
  /\ UNCHANGED <<inst, cls, weight, dev, pool, last, hist, qin>>

\* get_instance: `cls._instance = cls.__new__(cls)`
GetInstanceCreate(t) ==
  /\ qout.pc[t] = "create"
  /\ qout' = [qout EXCEPT !.objs[t] = NewPooler, !.instance = t,
                          !.made = qout.made \cup {t}, !.pc[t] = "initialize",
                          !.call = NoCallYet]
  /\ UNCHANGED <<inst, cls, weight, dev, pool, last, hist, qin>>

\* get_instance: `cls._instance.initialize()`, on the object _instance names now
GetInstanceInitialize(t) ==
  /\ qout.pc[t] = "initialize"
  /\ qout' = [qout EXCEPT !.objs[qout.instance] = initialize(qout.objs[qout.instance]),
                          !.pc[t] = "return", !.call = NoCallYet]
  /\ UNCHANGED <<inst, cls, weight, dev, pool, last, hist, qin>>

\* get_instance: `return cls._instance`
GetInstanceReturn(t) ==
  /\ qout.pc[t] = "return"
  /\ qout' = [qout EXCEPT !.got[t] = qout.instance, !.pc[t] = "ready", !.call = NoCallYet]
  /\ UNCHANGED <<inst, cls, weight, dev, pool, last, hist, qin>>

\* pool.add_outliers(outlier_idx, feature_dim) on the instance thread t was
\* given; an object not yet initialized has no model_dim attribute
AddOutliers(t, outlier_idx, feature_dim) ==
  /\ qout.pc[t] = "ready"
  /\ LET o == qout.got[t]
         obj == qout.objs[o]
     IN IF ~ obj.init
        THEN qout' = [qout EXCEPT !.pc[t] = "AttributeError", !.call = NoCallYet]
        ELSE qout' = [qout EXCEPT
                        !.objs[o] = add_outliers(obj, outlier_idx, feature_dim),
                        !.accepted = IF obj.model_dim \in {{}, {feature_dim}}
                                     THEN qout.accepted \cup outlier_idx ELSE qout.accepted,
                        !.call = [t |-> t, idx |-> outlier_idx, dim |-> feature_dim]]
  /\ UNCHANGED <<inst, cls, weight, dev, pool, last, hist, qin>>

\* quantize_blockwise: `if "dynamic" not in name2qmap`
QmapCheck(t) ==
  /\ qout.qpc[t] = "idle"
  /\ qout' = [qout EXCEPT !.qpc[t] = IF qout.qmap THEN "use" ELSE "build", !.call = NoCallYet]
  /\ UNCHANGED <<inst, cls, weight, dev, pool, last, hist, qin>>

\* quantize_blockwise: `name2qmap["dynamic"] = create_dynamic_map()`
QmapInsert(t) ==
  /\ qout.qpc[t] = "build"
  /\ qout' = [qout EXCEPT !.qmap = TRUE, !.builds = qout.builds + 1, !.qpc[t] = "use",
                          !.call = NoCallYet]
  /\ UNCHANGED <<inst, cls, weight, dev, pool, last, hist, qin>>

\* one caller: get_instance and add_outliers in any number and order
NextPool ==
  \/ GetInstanceCheck(1)
  \/ GetInstanceCreate(1)
  \/ GetInstanceInitialize(1)
  \/ GetInstanceReturn(1)
  \/ \E idx \in SUBSET PoolIdx, dim \in FeatureDims : AddOutliers(1, idx, dim)

SpecPool == InitProcess /\ [][NextPool]_vars

\* the statements of the threads interleaved; thread t adds index t - 1
NextThreads ==
  \E t \in Threads :
     \/ GetInstanceCheck(t)
     \/ GetInstanceCreate(t)
     \/ GetInstanceInitialize(t)
     \/ GetInstanceReturn(t)
     \/ AddOutliers(t, {t - 1}, 4)
     \/ QmapCheck(t)
     \/ QmapInsert(t)

SpecThreads == InitProcess /\ [][NextThreads]_vars

\* =================================================== sparse tensors
\* A COO tensor is kept with its index lists; the value of entry i is the
\* label i, so that entries can be told apart.

\* ops.unique(idx, return_counts=True), add_(1), scatter_ into zeros(n + 1)
\* and cumsum_: position j (from 0) ends as the number of indices below j
RECURSIVE cumsum(_, _)
cumsum(scattered, j) ==
  IF j = 0 THEN <<>>
  ELSE LET before == cumsum(scattered, j - 1)
       IN Append(before, (IF j = 1 THEN 0 ELSE before[j - 1]) + scattered[j])

pointer(idx, n) ==
  LET counts(v) == Cardinality({i \in 1..Len(idx) : idx[i] = v})
      \* position v + 1 (from 0) receives the count of the value v; a value
      \* that does not occur scatters nothing
      scattered == [j \in 1..(n + 1) |-> IF j >= 2 THEN counts(j - 2) ELSE 0]
  IN cumsum(scattered, n + 1)

\* ops.sort(colidx): the index orders that put colidx in ascending order
\* (the order among equal keys is the library's)
SortingOrders(keys) ==
  { o \in Permutations(1..Len(keys)) :
      \A i \in 1..(Len(keys) - 1) : keys[o[i]] <= keys[o[i + 1]] }

\* coo2csr(cooA)
coo2csr(cooA) ==
  [ kind |-> "csr", rows |-> cooA.rows, cols |-> cooA.cols, nnz |-> cooA.nnz,
    ptr |-> pointer(cooA.rowidx, cooA.rows),
    idx |-> cooA.colidx, values |-> cooA.values ]

\* coo2csc(cooA), col2rowidx being the order ops.sort returned
coo2csc(cooA, col2rowidx) ==
  [ kind |-> "csc", rows |-> cooA.rows, cols |-> cooA.cols, nnz |-> cooA.nnz,
    ptr |-> pointer([i \in 1..Len(col2rowidx) |-> cooA.colidx[col2rowidx[i]]], cooA.cols),
    idx |-> [i \in 1..Len(col2rowidx) |-> cooA.rowidx[col2rowidx[i]]],
    values |-> [i \in 1..Len(col2rowidx) |-> cooA.values[col2rowidx[i]]] ]

\* COOSparseTensor(rows, cols, nnz, rowidx, colidx, values) with index
\* lists and values of nnz entries each
CooInputs ==
  UNION { [ kind : {"coo"}, rows : {rc[1]}, cols : {rc[2]}, nnz : {n},
            rowidx : [1..n -> 0..(rc[1] - 1)], colidx : [1..n -> 0..(rc[2] - 1)],
            values : {[i \in 1..n |-> i]} ] :
          rc \in (1..2) \X (1..2), n \in 0..MaxNnz }

InitSparse ==
  /\ Idle
  /\ qin \in CooInputs
  /\ qout = Nothing

CallCoo2csr ==
  /\ qin.kind = "coo" /\ qout = Nothing
  /\ qout' = coo2csr(qin)
  /\ UNCHANGED <<inst, cls, weight, dev, pool, last, hist, qin>>

CallCoo2csc ==
  /\ qin.kind = "coo" /\ qout = Nothing
  /\ \E col2rowidx \in SortingOrders(qin.colidx) : qout' = coo2csc(qin, col2rowidx)
  /\ UNCHANGED <<inst, cls, weight, dev, pool, last, hist, qin>>

NextSparse ==
  \/ CallCoo2csr
  \/ CallCoo2csc

SpecSparse == InitSparse /\ [][NextSparse]_vars

\* ================================================ scaled quantization
\* A float is a reduced fraction n/d, a NaN or an infinity; the arithmetic
\* is the element-wise arithmetic of the tensor library, where a division
\* by zero raises nothing and yields a NaN or an infinity.
Fin(n, d) ==
  LET g == IF n = 0 THEN d ELSE GCD(IF n < 0 THEN -n ELSE n, d)
  IN [k |-> "fin", n |-> n \div g, d |-> d \div g]
NaN == [k |-> "nan", n |-> 0, d |-> 1]
Inf(s) == [k |-> "inf", n |-> s, d |-> 1]
Sign(a) == IF a.n > 0 THEN 1 ELSE IF a.n < 0 THEN -1 ELSE 0

FNeg(a) == [a EXCEPT !.n = -a.n]
FAbs(a) == [a EXCEPT !.n = IF a.n < 0 THEN -a.n ELSE a.n]

FMul(a, b) ==
  IF a.k = "nan" \/ b.k = "nan" THEN NaN
  ELSE IF a.k = "inf" \/ b.k = "inf"
       THEN IF Sign(a) * Sign(b) = 0 THEN NaN ELSE Inf(Sign(a) * Sign(b))
  ELSE Fin(a.n * b.n, a.d * b.d)

FDiv(a, b) ==
  IF a.k = "nan" \/ b.k = "nan" THEN NaN
  ELSE IF b.k = "inf" THEN IF a.k = "inf" THEN NaN ELSE Fin(0, 1)
  ELSE IF b.n = 0 THEN IF Sign(a) = 0 THEN NaN ELSE Inf(Sign(a))
  ELSE IF a.k = "inf" THEN Inf(Sign(a) * Sign(b))
  ELSE Fin(a.n * b.d * Sign(b), a.d * b.n * Sign(b))

FAdd(a, b) ==
  IF a.k = "nan" \/ b.k = "nan" THEN NaN
  ELSE IF a.k = "inf" THEN IF b.k = "inf" /\ b.n # a.n THEN NaN ELSE a
  ELSE IF b.k = "inf" THEN b
  ELSE Fin(a.n * b.d + b.n * a.d, a.d * b.d)

\* a <= b for finite a and b
FLe(a, b) == a.n * b.d <= b.n * a.d

\* ops.round: to the nearest integer, a tie to the even one
FRound(a) ==
  IF a.k # "fin" THEN a
  ELSE LET q == a.n \div a.d
           r == a.n - q * a.d
       IN Fin(IF 2 * r < a.d THEN q
              ELSE IF 2 * r > a.d THEN q + 1
              ELSE IF q % 2 = 0 THEN q ELSE q + 1, 1)

\* .astype(mindspore.int8): a value int8 holds is kept; the conversion of
\* any other value is not defined and yields whatever the build yields
AsInt8(a, undefined) ==
  IF a.k = "fin" /\ a.d = 1 /\ a.n \in -128..127 THEN a ELSE Fin(undefined, 1)

\* element-wise application over a matrix kept as a sequence of rows
Map(x, Op(_, _, _)) ==
  [i \in 1..Len(x) |-> [j \in 1..Len(x[i]) |-> Op(x[i][j], i, j)]]

Elements(x) == {x[i][j] : i \in 1..Len(x), j \in 1..Len(x[1])}
Largest(S) == CHOOSE a \in S : \A b \in S : FLe(b, a)
Smallest(S) == CHOOSE a \in S : \A b \in S : FLe(a, b)

\* ops.abs(x).max() and ops.amax(ops.abs(x), dim=1, keepdim=True)
AbsMax(x) == Largest({FAbs(a) : a \in Elements(x)})
RowAbsMax(x, i) == AbsMax(<<x[i]>>)

\* the cquantize kernel: for every element the index of the nearest entry
\* of the table `code`; what it stores for a NaN is not defined
quantize_no_absmax(A, code, undefined) ==
  LET Dist(a, c) == FAbs(FAdd(code[c], FNeg(a)))
      Nearest(a, i, j) ==
        IF a.k = "nan" THEN undefined
        ELSE CHOOSE c \in 1..Len(code) :
               \A e \in 1..Len(code) :
                  FLe(Dist(a, c), Dist(a, e)) /\ (FLe(Dist(a, e), Dist(a, c)) => c <= e)
  IN Map(A, Nearest)

\* quantize(A, code): absmax = ops.abs(A).max(); inp = A / absmax
quantize(A, code, undefined) ==
  LET absmax == AbsMax(A)
      Scaled(a, i, j) == FDiv(a, absmax)
  IN [ err |-> "", out |-> quantize_no_absmax(Map(A, Scaled), code, undefined),
       scale |-> <<absmax>>, divisors |-> {absmax} ]

\* vectorwise_quant(x, dim=1, quant_type=quant_type) with C = 127.0
vectorwise_quant(x, quant_type, undefined) ==
  LET C == Fin(127, 1)
      rows == 1..Len(x)
      Zeropoint(x0, dyna) ==
        LET qx == FDiv(Fin(255, 1), dyna)
            zpx == FRound(FMul(Smallest(Elements(x0)), qx))
            Shift(a, i, j) == FAdd(FRound(FAdd(FMul(qx, a), FNeg(zpx))), zpx)
        IN [out |-> Map(x0, Shift), qx |-> qx]
      Guarded(dyna) == IF dyna = Fin(0, 1) THEN Fin(1, 1) ELSE dyna
      Range(x0) == FAdd(Largest(Elements(x0)), FNeg(Smallest(Elements(x0))))
  IN CASE quant_type = "linear" ->
            LET max1 == AbsMax(x)
                Q(a, i, j) == AsInt8(FRound(FMul(FDiv(a, max1), C)), undefined)
            IN [err |-> "", out |-> Map(x, Q), scale |-> <<max1>>, divisors |-> {max1}]
       [] quant_type \in {"vector", "row"} ->
            LET Q(a, i, j) == AsInt8(FRound(FMul(a, FDiv(C, RowAbsMax(x, i)))), undefined)
            IN [err |-> "", out |-> Map(x, Q),
                scale |-> [i \in rows |-> RowAbsMax(x, i)],
                divisors |-> {RowAbsMax(x, i) : i \in rows}]
       [] quant_type = "zeropoint" ->
            LET dyna == Guarded(Range(x))
            IN [err |-> "", out |-> Zeropoint(x, dyna).out,
                scale |-> <<Zeropoint(x, dyna).qx>>, divisors |-> {dyna}]
       [] quant_type \in {"vector-zeropoint", "row-zeropoint"} ->
            LET dyna(i) == Guarded(Range(<<x[i]>>))
            IN [err |-> "",
                out |-> [i \in rows |-> Zeropoint(<<x[i]>>, dyna(i)).out[1]],
                scale |-> [i \in rows |-> Zeropoint(<<x[i]>>, dyna(i)).qx],
                divisors |-> {dyna(i) : i \in rows}]
       [] quant_type = "truncated-vector" ->
            LET max1(i) == FMul(RowAbsMax(x, i), Fin(7, 10))
                Clip(a, i, j) == IF FLe(FAbs(a), max1(i)) THEN a
                                 ELSE FMul(max1(i), Fin(Sign(a), 1))
                Q(a, i, j) == AsInt8(FRound(FMul(FDiv(Clip(a, i, j), max1(i)), C)), undefined)
            IN [err |-> "", out |-> Map(x, Q), scale |-> [i \in rows |-> max1(i)],
                divisors |-> {max1(i) : i \in rows}]
       [] OTHER -> [err |-> "None"]

\* ---- scaled quantization calls
\* matrices of two rows; a row, or the whole matrix, may hold zeros only
Matrices == [1..2 -> [1..NCols -> {Fin(v, 1) : v \in {-2, 0, 1}}]]

QuantTypes ==
  {"linear", "vector", "row", "zeropoint", "vector-zeropoint", "row-zeropoint",
   "truncated-vector", "none"}

\* sorted tables that hold the entry 0
Codes ==
  { <<Fin(-1, 1), Fin(0, 1), Fin(1, 1)>>,
    <<Fin(-1, 1), Fin(-1, 2), Fin(0, 1), Fin(1, 4), Fin(1, 1)>> }

ScaleInputs ==
  [kind : {"vectorwise_quant"}, x : Matrices, quant_type : QuantTypes, undefined : {-128, 0}]
    \cup UNION { [kind : {"quantize"}, x : Matrices, code : {c}, undefined : 1..Len(c)] :
                 c \in Codes }

InitScale ==
  /\ Idle
  /\ qin \in ScaleInputs
  /\ qout = Nothing

CallQuantize ==
  /\ qin.kind = "quantize" /\ qout = Nothing
  /\ qout' = [kind |-> "scaled", res |-> quantize(qin.x, qin.code, qin.undefined)]
  /\ UNCHANGED <<inst, cls, weight, dev, pool, last, hist, qin>>

CallVectorwiseQuant ==
  /\ qin.kind = "vectorwise_quant" /\ qout = Nothing
  /\ qout' = [kind |-> "scaled",
              res |-> vectorwise_quant(qin.x, qin.quant_type, qin.undefined)]
  /\ UNCHANGED <<inst, cls, weight, dev, pool, last, hist, qin>>

NextScale ==
  \/ CallQuantize
  \/ CallVectorwiseQuant

SpecScale == InitScale /\ [][NextScale]_vars

\* ============================================== checkpoint loading
\* the keys of a checkpoint that the base class leaves in unexpected_keys:
\* the scale vector saved by _save_to_state_dict and its format tag
CheckpointKeys == {"SCB", "weight_format"}

NonQuantizedMessage ==
  "Loading a quantized checkpoint into non-quantized Linear8bitLt is not supported. Please call module.cuda() before module.load_state_dict()"

\* Linear8bitLt._load_from_state_dict after the base class has run: w is
\* the weight parameter (its CB and SCB attributes), st the layer's state;
\* a tensor written by copy_ is tagged "loaded"
load_from_state_dict(st, c, w, unexpected_keys) ==
  IF "SCB" \notin unexpected_keys
  THEN [exc |-> <<>>, w |-> w, st |-> st, unexpected_keys |-> unexpected_keys]
  ELSE IF w.SCB = "None"
  THEN [exc |-> <<"RuntimeError", NonQuantizedMessage>>, w |-> w, st |-> st,
        unexpected_keys |-> unexpected_keys]
  ELSE LET copied == [w EXCEPT !.SCB = "loaded"]
       IN [exc |-> <<>>, w |-> copied,
           st |-> IF GetAttr(st, c, "SCB") # "None"
                  THEN SetAttr(st, "SCB", copied.SCB) ELSE st,
           unexpected_keys |-> unexpected_keys \ {"SCB"}]

\* module.load_state_dict on the layer of state s
LoadStateDict(s) ==
  \E keys \in SUBSET CheckpointKeys :
    \E r \in {load_from_state_dict(inst[s], cls, weight[s], keys)} :
       /\ inst' = [inst EXCEPT ![s] = r.st]
       /\ weight' = [weight EXCEPT ![s] = r.w]
       /\ last' = [NoCall EXCEPT !.kind = "load", !.s = s,
                                 !.res = IF r.exc = <<>> THEN "ok" ELSE "error",
                                 !.exc = r.exc]
       /\ qout' = [kind |-> "load", given |-> keys, unexpected_keys |-> r.unexpected_keys]
       /\ UNCHANGED <<cls, dev, pool, hist, qin>>

\* one layer that is quantized, called and loaded from checkpoints
NextLoad ==
  \/ Quant(1)
  \/ Forward(1)
  \/ LoadStateDict(1)

SpecLoad == Init /\ [][NextLoad]_vars

\* ====================================================== properties
\* attribute f as read through state object s
Attr(s, f) == GetAttr(inst[s], cls, f)

IsCall == last.kind \in {"forward", "matmul", "fresh", "direct", "matmul4bit"}

\* C1: in every completed call on a MatmulState whose threshold is positive,
\* the columns of A excluded from the base product are exactly the columns
\* whose contribution the outlier matmul of that call adds back (so a call
\* whose input has no outlier column excludes none).
C1_ExcludedColumnsAreAddedBack ==
  (last.s \in States /\ last.res = "ok" /\ Attr(last.s, "threshold") > 0)
     => last.zeroed = last.added

\* position of a step in the order the contract fixes
StepRank(step) ==
  CASE step = "quantA" -> 1
    [] step = "quantB" -> 2
    [] step = "transformB" -> 3
    [] step \in {"transformA", "copyA"} -> 4
    [] step \in {"igemmlt", "dense"} -> 5
    [] step \in {"dequant", "dequant_bias"} -> 6
    [] step = "bias" -> 7
    [] step = "outlier" -> 8
    [] OTHER -> 0

Positions(log, steps) == {i \in 1..Len(log) : log[i] \in steps}

\* C2: the steps of a non-empty call run in the order quantize A, quantize
\* B, layout-transform B, base matmul, dequantization, bias add, outlier
\* add-back, each at most once; the outlier columns of the quantized A are
\* zeroed before the operand of the base matmul is produced; the bias is
\* added before the outlier contribution; a call that completes has
\* quantized A, run one base matmul and dequantized its result.
C2_StepsInFixedOrder ==
  (IsCall /\ last.res \in {"ok", "error"}) =>
     /\ \A i, j \in 1..Len(last.log) :
           (i < j /\ last.log[i] # "zeroA" /\ last.log[j] # "zeroA")
              => StepRank(last.log[i]) < StepRank(last.log[j])
     /\ \A z \in Positions(last.log, {"zeroA"}) :
           /\ 1 \in Positions(last.log, {"quantA"}) /\ 1 < z
           /\ \A m \in Positions(last.log, {"transformA", "copyA", "igemmlt", "dense"}) : z < m
     /\ \A b \in Positions(last.log, {"bias", "dequant_bias"}) :
           \A o \in Positions(last.log, {"outlier"}) : b < o
     /\ last.res = "ok" =>
           /\ last.log[1] = "quantA"
           /\ Cardinality(Positions(last.log, {"igemmlt", "dense"})) = 1
           /\ Cardinality(Positions(last.log, {"dequant", "dequant_bias"})) = 1

\* a completed call with a separately added bias and an outlier add-back
C2_Witness ==
  /\ last.res = "ok"
  /\ Positions(last.log, {"zeroA"}) # {}
  /\ Positions(last.log, {"quantB"}) # {}
  /\ Positions(last.log, {"transformB"}) # {}
  /\ Positions(last.log, {"bias"}) # {}
  /\ Positions(last.log, {"outlier"}) # {}

\* the device has accelerated integer GEMM: capability 7.5 or more and not
\* one of the GeForce 16 series
AcceleratedGemm(d) ==
  /\ d.cap[1] > 7 \/ (d.cap[1] = 7 /\ d.cap[2] >= 5)
  /\ ~ \E i \in 1..(Len(d.name) - 1) :
         d.name[i] = "GTX" /\ d.name[i + 1] \in {"1630", "1650", "1660"}

\* C3: a call that reaches the base matmul takes the fast int8 path if and
\* only if the device has accelerated integer GEMM and force_no_igemmlt is
\* false, and the dense fallback otherwise; a call that completes has run
\* exactly one base matmul, that of the path it took.
C3_PathSelection ==
  (IsCall /\ last.s \in States) =>
     /\ last.path # "none" =>
           /\ last.path \in {"fast", "dense"}
           /\ last.path = "fast" <=>
                (AcceleratedGemm(dev) /\ ~ Attr(last.s, "force_no_igemmlt"))
     /\ last.res = "ok" =>
           /\ last.path # "none"
           /\ Cardinality(Positions(last.log, {"igemmlt", "dense"})) = 1
           /\ Positions(last.log, {"igemmlt"}) # {} <=> last.path = "fast"

\* a call on a GTX 1650 Ti (capability 7.5) completes on the dense path
\* although the fallback was not forced
C3_Witness ==
  /\ last.res = "ok" /\ last.path = "dense"
  /\ dev.cap = <<7, 5>> /\ dev.name[2] = "1650"
  /\ ~ Attr(1, "force_no_igemmlt")

\* C4: a call in which the activation A or the weight B has zero elements
\* returns the empty result and runs no quantization, transform, GEMM or
\* dequantization step.
C4_EmptyOperandShortCircuits ==
  (IsCall /\ (last.aEmpty \/ last.bEmpty)) =>
     (last.res = "empty" /\ last.log = <<>>)

Frozen(s) == ~ Attr(s, "has_fp16_weights")

\* C5: for a layer with frozen 8-bit weights, a forward call leaves at most
\* one weight-layout transform done since the weight last changed; after a
\* forward call that completes on the fast path the row-major copy CB is
\* gone from the state and the tiled buffer CxB is cached; a forward call
\* that starts with CxB cached performs no transform and keeps CxB.
C5_TransformAtMostOnce ==
  [][ (last'.kind = "forward" /\ Frozen(1)') =>
        /\ hist'[1] <= 1
        /\ (last'.res = "ok" /\ last'.path = "fast") =>
              (Attr(1, "CB")' = "None" /\ Attr(1, "CxB")' = "T")
        /\ Attr(1, "CxB") = "T" =>
              (Count(last'.log, "transformB") = 0 /\ Attr(1, "CxB")' = "T") ]_vars

\* a later forward call of a frozen layer completes on the fast path with
\* the buffer transformed by an earlier call
C5_Witness ==
  /\ last.kind = "forward" /\ last.res = "ok" /\ last.path = "fast"
  /\ Frozen(1)
  /\ hist[1] = 1 /\ Count(last.log, "transformB") = 0
  /\ Attr(1, "CB") = "None" /\ Attr(1, "CxB") = "T"

\* C6: with full-precision weights kept, a completed call quantizes B only
\* if the layer is training and the weight has no gradient, or if the
\* state held no quantized weight (neither CB nor CxB) when the call began.
C6_RequantizeOnlyWhenNeeded ==
  [][ (last'.kind \in {"forward", "matmul"} /\ last'.res = "ok"
         /\ ~ Frozen(1)' /\ Count(last'.log, "quantB") > 0) =>
        \/ Attr(1, "is_training")' /\ ~ last'.hasGrad
        \/ Attr(1, "CB") = "None" /\ Attr(1, "CxB") = "None" ]_vars

\* C7: a call changes what can be read through the state object it works
\* on and through no other.
C7_CallsTouchOnlyTheirState ==
  [][ IsCall' =>
        \A s \in States \ {last'.s} : \A f \in DOMAIN cls :
           GetAttr(inst'[s], cls', f) = GetAttr(inst[s], cls, f) ]_vars

CacheFields == {"CB", "CxB", "SB", "SCB", "CxBt", "SBt", "CBt", "SCBt", "subB", "idx"}
ConfigFields == {"threshold", "has_fp16_weights", "force_no_igemmlt", "is_training", "formatB"}

\* C8: after reset_grads no cache derived from the weight is left in the
\* state (quantized weight in either layout, transposed forms, scale
\* vectors, layout states, outlier sub-block, outlier column index) and the
\* configuration fields are what they were.
C8_ResetDropsAllCaches ==
  [][ \A s \in States : (last'.kind = "reset" /\ last'.s = s) =>
        /\ \A f \in CacheFields : Attr(s, f)' \in {"None", "absent"}
        /\ \A f \in ConfigFields : Attr(s, f)' = Attr(s, f) ]_vars

\* C9: loading the record a QuantState of type fp4 or nf4 was saved to,
\* packed or unpacked, nested or not, succeeds and returns a state equal to
\* the saved one under QuantState equality.
C9_RoundTripRestoresState ==
  qout.kind = "loaded" =>
     /\ qout.res.err = ""
     /\ QuantStateEq(qout.res.qs[1], qin.state)

\* k is the least count of blocks of bs elements that hold n elements
IsCeilOf(k, n, bs) == k * bs >= n /\ (k - 1) * bs < n

\* arguments the quantization entry points document as supported
SupportedCall(q) ==
  /\ q.blocksize \in SupportedBlocksizes
  /\ q.dtype \in FloatDTypes
  /\ q.kind = "quantize_4bit" => (q.device = "cuda" /\ q.quant_type \in {"fp4", "nf4"})

\* C10: quantize_blockwise and quantize_4bit, called without an absmax
\* buffer on a supported input of any element count, return a state that
\* holds ceil(numel / blocksize) scales; with nested or compressed
\* statistics the quantized absmax keeps that length and the nested state,
\* which is not nested itself, holds ceil(that length / nested blocksize)
\* scales, the nested blocksize being the call's own in quantize_blockwise
\* and 256 in quantize_4bit.
C10_ScaleCounts ==
  qout.kind = "quantized" =>
     /\ SupportedCall(qin) => qout.res.err = ""
     /\ qout.res.err = "" =>
           LET st == qout.res.state[1]
               nb == IF qin.kind = "quantize_4bit" THEN 256 ELSE qin.blocksize
           IN /\ st.nested = qin.nested
              /\ IsCeilOf(st.absmax.v, qin.n, qin.blocksize)
              /\ st.nested =>
                    /\ ~ st.state2[1].nested
                    /\ st.state2[1].blocksize = nb
                    /\ IsCeilOf(st.state2[1].absmax.v, st.absmax.v, nb)

\* a builder call returned a table
IsTable == qout.kind = "codebook" /\ qout.res.err = ""

IsSorted(code) == \A i \in 1..(Len(code) - 1) : ~ Lt(code[i + 1], code[i])

\* C12: a table returned by a codebook builder is in ascending order and
\* its largest absolute value is exactly 1.
C12_SortedWithUnitMaximum ==
  IsTable =>
     /\ IsSorted(qout.res.code)
     /\ Max([i \in 1..Len(qout.res.code) |-> Abs(qout.res.code[i])]) = One

\* C13: create_dynamic_map with total_bits = 8 and max_exponent_bits in 1..7,
\* signed or not, passes its length assertion and returns 256 values with
\* 0 and 1 among them.
C13_DynamicMapIsComplete ==
  (qout.kind = "codebook" /\ qin.kind = "create_dynamic_map" /\ qin.total_bits = 8) =>
     /\ qout.res.err = ""
     /\ Len(qout.res.code) = 256
     /\ \E i \in 1..256 : qout.res.code[i] = Zero
     /\ \E i \in 1..256 : qout.res.code[i] = One

\* C14: dequantize_4bit called with a state and no out buffer returns a
\* tensor of the shape and the dtype the state records, whatever the shape
\* of the packed buffer.
C14_ShapeAndDTypeRestored ==
  (qout.kind = "dequantized" /\ qout.res.err = "") =>
     /\ qout.res.shape = qin.state.shape.v
     /\ qout.res.dtype = qin.state.dtype

\* p is the least multiple of m that is not below x
IsPadded(p, x, m) == p % m = 0 /\ p >= x /\ p - m < x

\* C15: for a shape of two or three dimensions whose logical matrix is
\* rows x cols (rows the product of the leading dimensions; the two swapped
\* for a transposed request), get_transform_buffer returns a zero-filled
\* buffer of rows x pad32(cols) for col32, pad8(rows) x pad32(cols) for
\* col_turing and pad32(rows) x pad32(cols) for col_ampere, pad being the
\* next multiple, and a layout state of the unpadded shape (reversed for a
\* transposed request) and the target order.
C15_BufferPadding ==
  (qout.kind = "buffer" /\ qout.res.err = "") =>
     LET sh == qin.shape
         lead == IF Len(sh) = 2 THEN sh[1] ELSE sh[1] * sh[2]
         rows == IF qin.transpose THEN sh[Len(sh)] ELSE lead
         cols == IF qin.transpose THEN lead ELSE sh[Len(sh)]
         buf == qout.res.shape
     IN /\ qout.res.fill = "zeros"
        /\ qout.res.state[2] = qin.to_order
        /\ Len(qout.res.state[1]) = Len(sh)
        /\ \A i \in 1..Len(sh) :
              qout.res.state[1][i] = IF qin.transpose THEN sh[Len(sh) + 1 - i] ELSE sh[i]
        /\ qin.to_order = "col32" => (buf[1] = rows /\ IsPadded(buf[2], cols, 32))
        /\ qin.to_order = "col_turing" =>
              (IsPadded(buf[1], rows, 8) /\ IsPadded(buf[2], cols, 32))
        /\ qin.to_order = "col_ampere" =>
              (IsPadded(buf[1], rows, 32) /\ IsPadded(buf[2], cols, 32))

\* a col_turing buffer for a three-dimensional shape, padded in both
\* directions
C15_Witness ==
  /\ qout.kind = "buffer" /\ qout.res.err = ""
  /\ qin.to_order = "col_turing" /\ Len(qin.shape) = 3 /\ ~ qin.transpose
  /\ qin.shape = <<9, 1, 33>>
  /\ qout.res.shape = <<16, 64>>

\* C16: the table T of get_inverse_transform_indices for a tile of d1 * d2
\* positions and a forward transform that permutes them is a permutation
\* of 0 .. d1*d2 - 1 with T[p] the original linear index of the element
\* the transform places at position p; the loop ends within 8 passes and
\* not before every byte some index needs has had its pass.
C16_InverseIndices ==
  qout.kind \in {"indices", "restored"} =>
     LET n == qin.d1 * qin.d2
     IN /\ \A p \in 1..n : qout.T[p] = qin.pi[p] - 1
        /\ {qout.T[p] : p \in 1..n} = 0..(n - 1)
        /\ qout.passes <= 8
        /\ n - 1 < 256^qout.passes

\* a 32 x 32 tile, whose indices need two bytes, under the transposition
C16_Witness ==
  /\ qout.kind = "indices"
  /\ qin.d1 = 32 /\ qin.d2 = 32
  /\ qin.pi[2] = 33
  /\ qout.T[2] = 32 /\ qout.T[1024] = 1023
  /\ qout.passes = 3

\* C17: undo_layout applied to the tiled form of a matrix of whole tiles,
\* with the table get_inverse_transform_indices computes for the tile
\* permutation, returns the matrix: every element of the input once, in
\* row-major order.
C17_UndoLayoutRestores ==
  qout.kind = "restored" =>
     /\ qout.err = ""
     /\ qout.out = [y \in 1..(qin.rb * qin.d1 * qin.cb * qin.d2) |-> y - 1]

\* a matrix of two by two tiles of 2 x 3 restored from a tiling that moves
\* elements inside the tile
C17_Witness ==
  /\ qout.kind = "restored" /\ qout.err = ""
  /\ qin.d1 = 2 /\ qin.d2 = 3 /\ qin.rb = 2 /\ qin.cb = 2
  /\ qin.pi = <<4, 1, 6, 2, 5, 3>>
  /\ Len(qout.out) = 24 /\ qout.out[8] = 7

\* the index set of the pool the process-wide instance names
Pooled(q) == q.objs[q.instance].outliers

\* C18: an add_outliers call leaves the pooled index set a superset of what
\* it was; once the pool has a feature dimension it keeps it, the first
\* call's dimension becoming the pool's; a call with the pool's dimension
\* puts its indices into the set, a call with another dimension leaves the
\* set as it was.
C18_PoolOnlyGrows ==
  [][ (qout'.call.t # 0) =>
        LET before == qout.objs[qout.instance]
            after == qout'.objs[qout'.instance]
            c == qout'.call
        IN /\ before.outliers \subseteq after.outliers
           /\ before.model_dim # {} => after.model_dim = before.model_dim
           /\ before.model_dim = {} => after.model_dim = {c.dim}
           /\ {c.dim} = after.model_dim => c.idx \subseteq after.outliers
           /\ {c.dim} # after.model_dim => after.outliers = before.outliers ]_vars

\* the pool holds indices of two calls and has refused a call of another
\* feature dimension
C18_Witness ==
  /\ qout.call.t = 1 /\ qout.call.dim = 8 /\ qout.call.idx = {2}
  /\ qout.objs[qout.instance].model_dim = {4}
  /\ Pooled(qout) = {0, 1}

\* C19: whatever the interleaving of the threads, at most one pooler is ever
\* created, every caller is given that one, every index an add_outliers
\* call has put into a pool is in the process-wide pool, and the dynamic
\* codebook is built and inserted at most once.
C19_SingletonsCreatedOnce ==
  qout.kind = "process" =>
     /\ Cardinality(qout.made) <= 1
     /\ \A t \in Threads : qout.got[t] # 0 => qout.got[t] = qout.instance
     /\ \A t \in Threads : qout.pc[t] # "AttributeError"
     /\ qout.instance # 0 => qout.accepted \subseteq Pooled(qout)
     /\ qout.builds <= 1

\* the compressed form holds, slice by slice of its pointer, the entries of
\* the COO tensor whose major index (row for CSR, column for CSC) is that
\* slice's, with their minor index and value
HoldsSameMatrix(coo, major, minor, n, out) ==
  /\ Len(out.ptr) = n + 1
  /\ out.ptr[1] = 0
  /\ out.ptr[n + 1] = coo.nnz
  /\ \A j \in 1..n : out.ptr[j] <= out.ptr[j + 1]
  /\ \A r \in 0..(n - 1) :
        { <<out.idx[i], out.values[i]>> : i \in (out.ptr[r + 1] + 1)..out.ptr[r + 2] }
          = { <<minor[i], coo.values[i]>> : i \in {k \in 1..coo.nnz : major[k] = r} }

\* C20: coo2csr and coo2csc turn a COO tensor, whatever the order of its
\* entries, into the CSR and the CSC form of the same matrix: the pointer
\* has one entry more than there are rows (columns), starts at 0, does not
\* decrease and ends at nnz, each slice holds exactly the entries of its row
\* (column), and nnz is the length of the value and index lists.
C20_SparseConversions ==
  qout.kind \in {"csr", "csc"} =>
     /\ qout.nnz = Len(qout.values) /\ qout.nnz = Len(qout.idx)
     /\ qin.nnz = Len(qin.values) /\ qin.nnz = Len(qin.rowidx) /\ qin.nnz = Len(qin.colidx)
     /\ qout.kind = "csr" => HoldsSameMatrix(qin, qin.rowidx, qin.colidx, qin.rows, qout)
     /\ qout.kind = "csc" => HoldsSameMatrix(qin, qin.colidx, qin.rowidx, qin.cols, qout)

\* the blocksizes a blockwise call is given: the call argument, the
\* blocksize of the state passed in, or both
GivenBlocksizes(q) ==
  IF q.kind \in {"quantize_blockwise", "quantize_4bit"} THEN {q.blocksize}
  ELSE IF q.kind = "dequantize_blockwise" THEN {q.state.blocksize}
  ELSE {q.blocksize, q.state.blocksize}

\* C21: quantize_blockwise, dequantize_blockwise, quantize_4bit and
\* dequantize_4bit, given a blocksize outside {64, ..., 4096} by argument or
\* by the state passed in, on the CPU path as on the GPU path, end with an
\* error and have handed that blocksize to no backend kernel.
C21_UnsupportedBlocksizeRejected ==
  (qout.kind \in {"quantized", "dequantized"}
     /\ ~ (GivenBlocksizes(qin) \subseteq SupportedBlocksizes)) =>
     /\ qout.res.err # ""
     /\ \A i \in 1..Len(qout.res.kernel) :
           qout.res.kernel[i].blocksize \in SupportedBlocksizes

\* the (from_order, to_order) pairs transform has a kernel for
Conversions ==
  { <<"row", "col32">>, <<"row", "col_turing">>, <<"row", "col_ampere">>,
    <<"col_turing", "row">>, <<"col_ampere", "row">> }

\* C22: transform ends with an error for every (from_order, to_order) pair
\* it has no conversion kernel for, with or without an out buffer passed
\* in, and the buffer it returns has been written by a conversion kernel.
C22_UnsupportedTransformRaises ==
  qout.kind = "transformed" =>
     /\ <<qin.from_order, qin.to_order>> \notin Conversions => qout.res.err # ""
     /\ qout.res.err = "" => qout.res.kernel # "none"

\* C23: when the integer-GEMM backend returns a nonzero status, the call
\* ends with an error whose arguments hold that status code; nothing is
\* returned, the backend is called once, and the dense fallback is not run
\* in place of the failed fast path.
C23_BackendErrorSurfaces ==
  (IsCall /\ last.status # 0 /\ Count(last.log, "igemmlt") > 0) =>
     /\ last.res = "error"
     /\ Count(last.log, "igemmlt") = 1
     /\ last.path = "fast" /\ Count(last.log, "dense") = 0
     /\ \E i \in 1..Len(last.exc) : last.exc[i] = ToString(last.status)

\* the rows of the input that are scaled together and hold zeros only
ZeroScaled(q) ==
  IF q.kind = "quantize" \/ q.quant_type \in {"linear", "zeropoint"}
  THEN IF Elements(q.x) = {Fin(0, 1)} THEN 1..Len(q.x) ELSE {}
  ELSE {i \in 1..Len(q.x) : Elements(<<q.x[i]>>) = {Fin(0, 1)}}

\* C24: quantize, and vectorwise_quant in each of its modes, given an input
\* whose scale is zero (the tensor or the row being scaled holds zeros
\* only), divide by no zero and map every element of it to the zero-valued
\* code.
C24_ZeroScaleMapsToZero ==
  (qout.kind = "scaled" /\ qout.res.err = "" /\ ZeroScaled(qin) # {}) =>
     /\ Fin(0, 1) \notin qout.res.divisors
     /\ \A i \in ZeroScaled(qin), j \in 1..NCols :
           IF qin.kind = "quantize"
           THEN qin.code[qout.res.out[i][j]] = Fin(0, 1)
           ELSE qout.res.out[i][j] = Fin(0, 1)

\* C25: dequantize_blockwise and dequantize_4bit, given a nested state,
\* hand their kernel the absmax rebuilt by dequantizing state.absmax with
\* state.state2 and adding state.offset, not the stored quantized
\* state.absmax, on the CPU path as on the GPU path.
C25_NestedAbsmaxIsRebuilt ==
  (qout.kind = "dequantized" /\ qout.res.err = "" /\ qin.state.nested) =>
     /\ Len(qout.res.kernel) = 2
     /\ qout.res.kernel[1].absmax = qin.state.state2[1].absmax
     /\ qout.res.kernel[2].absmax = Rescaled(qin.state)
     /\ qout.res.kernel[2].absmax # qin.state.absmax

\* C26: the packed buffer quantize_4bit allocates for n >= 1 elements holds
\* at least ceil(n / 2) bytes, whatever the storage dtype of dtype2bytes,
\* so that two 4-bit codes per byte fit.
C26_PackedBufferHoldsAllCodes ==
  (qout.kind = "quantized" /\ qin.kind = "quantize_4bit" /\ qin.n >= 1) =>
     \A i \in 1..Len(qout.res.kernel) : 2 * qout.res.kernel[i].out >= qin.n

\* a quantized weight is held for the layer of state s: by the parameter,
\* or by the state as row-major CB or as tiled CxB
Quantized(s) ==
  weight[s].CB # "None" \/ Attr(s, "CB") # "None" \/ Attr(s, "CxB") # "None"

\* C27: a non-empty forward call of a layer whose weight has been
\* quantized, after any sequence of forward calls and changes of the
\* force-fallback flag or of the device, finds the weight the selected path
\* needs and runs the base matmul: igemmlt on CxB with SB on the fast path,
\* the dense product on CB with SCB on the fallback path.
C27_NeededWeightIsPresent ==
  [][ (last'.kind = "forward" /\ ~ last'.aEmpty /\ Quantized(1)) =>
        /\ last'.path \in {"fast", "dense"}
        /\ last'.path = "fast" => Count(last'.log, "igemmlt") = 1
        /\ last'.path = "dense" => Count(last'.log, "dense") = 1 ]_vars


\* C28: get_4bit_type returns a table of exactly 16 values with largest
\* absolute value 1 for nf4, fp4, int4 and for af4 with blocksize 64, and
\* raises NotImplementedError for every other typename and for af4 with
\* another blocksize.
C28_FourBitTables ==
  (qout.kind = "codebook" /\ qin.kind = "get_4bit_type") =>
     IF qin.typename \in {"nf4", "fp4", "int4"}
          \/ (qin.typename = "af4" /\ qin.blocksize = 64)
     THEN /\ qout.res.err = ""
          /\ Len(qout.res.code) = 16
          /\ Max([i \in 1..16 |-> Abs(qout.res.code[i])]) = One
     ELSE qout.res.err = "NotImplementedError"


\* C29: a MatMul8bitLt call that returns early on an empty activation
\* leaves the state object it was handed as it was: the state of an
\* explicit-state call is the one bnb.matmul passed in, the class-level
\* defaults and every other state are untouched, no outlier pool is
\* obtained and no step is run.
C29_EmptyCallKeepsState ==
  [][ (last'.kind \in {"matmul", "fresh", "direct"} /\ last'.aEmpty) =>
        /\ cls' = cls
        /\ pool' = pool
        /\ last'.log = <<>>
        /\ last'.kind = "matmul" =>
             \E t \in Thresholds : inst' = [inst EXCEPT ![last'.s] = MatmulEntry(@, t)]
        /\ last'.kind # "matmul" => inst' = inst
        /\ \A s \in States : \A f \in CacheFields \cup {"outlier_pool"} :
             GetAttr(inst'[s], cls', f) = GetAttr(inst[s], cls, f) ]_vars

\* an empty call on a state that holds a cached weight and its scales
C29_Witness ==
  /\ last.kind = "matmul" /\ last.aEmpty
  /\ Attr(1, "CxB") # "None" /\ Attr(1, "SCB") # "None"


\* the scale vector the next forward call of the layer works with: the
\* parameter's when it holds one, else the state's
ScaleVector(w, st, c) == IF w.SCB # "None" THEN w.SCB ELSE GetAttr(st, c, "SCB")

\* C30: loading a checkpoint with an SCB entry raises the 'non-quantized
\* Linear8bitLt' RuntimeError only for a layer whose weight has never been
\* quantized; for a layer with a quantized weight, before its first forward
\* call and after forward calls, the load succeeds, the layer's scale
\* vector is the checkpoint's and SCB is no longer among unexpected_keys.
C30_LoadNeedsQuantizedWeightOnly ==
  [][ (last'.kind = "load" /\ "SCB" \in qout'.given) =>
        /\ last'.exc # <<>> =>
             /\ last'.exc = <<"RuntimeError", NonQuantizedMessage>>
             /\ ~ (Frozen(1) /\ Quantized(1))
        /\ (Frozen(1) /\ Quantized(1)) =>
             /\ last'.res = "ok"
             /\ ScaleVector(weight'[1], inst'[1], cls') = "loaded"
             /\ "SCB" \notin qout'.unexpected_keys ]_vars
====
